---- MODULE Spec2Model ----
(***************************************************************************)
(* Realtime Voice Session Engine.                                          *)
(*                                                                         *)
(* RealtimeAPIClient (src/unnamed/part_007) together with the event        *)
(* handlers that src/src/embed/useVoiceEmbed.ts registers on it and the    *)
(* playback half of AudioManager (src/unnamed/part_006) they drive.        *)
(*                                                                         *)
(* Every WebSocket the client ever creates keeps its four callbacks bound  *)
(* to the client, so the sockets are modelled as objects of their own      *)
(* (sock), apart from the one handle the client holds (ws).                *)
(***************************************************************************)
EXTENDS Integers, Sequences, FiniteSets, TLC

\* ------------------------------------------------------------- bounds
\* WebSocket objects that exist at the same time and are not yet CLOSED.
MaxSockets == 2
\* Reconnect timers (setTimeout) pending at the same time.
MaxTimers == 1
\* Responses counted as active at the same time.
MaxActive == 3
\* input_audio_buffer.clear messages not yet acknowledged on one socket.
MaxClears == 2
\* Decoded buffers waiting in AudioManager.audioQueue.
MaxQueue == 2
\* AudioBufferSourceNodes that sound at the same time, and stopped ones whose ended
\* event is still to come.
MaxSources == 2
\* Promises of playAudioData unresolved at the same time.
MaxUnresolved == 6
\* getUserMedia requests of performInitialization pending at the same time.
MaxInits == 2
\* Samples in a signal fed to the resampler.
MaxSignal == 4
\* audioWorklet.addModule calls of startCapture pending at the same time.
MaxLoads == 2
\* Clients useVoiceEmbed has let go of that still have a socket or a timer.
MaxFormer == 1
\* Messages that are counted: session.update on one socket, input_audio_buffer.clear
\* in one run of frames, function_call_output items for one call.
MaxCounted == 2
\* Samples in one captured frame handed to sendAudio.
FrameSamples == 1200
\* Cap on bufferedSamples.
MaxBuffered == 2400

\* beginCapture() calls of startRecording in flight at the same time.
MaxStarts == 2

\* Function calls of the upstream model that are followed.
MaxCalls == 2
\* Entries of a raw arguments object.
MaxArgs == 3
\* Nested invocations in one tool call.
MaxNested == 2

\* -------------------------------------------------- program constants
maxReconnectAttempts == 5
reconnectDelay == 1000
MinCommitSamples == 2400

Slots == 1..MaxSockets
Formers == 1..MaxFormer
CallIds == 1..MaxCalls
AgentStates == {"idle", "listening", "speaking", "thinking", "interrupted"}

VARIABLES
  \* RealtimeAPIClient fields
  ws,                  \* 0 = null, else the slot of the socket held
  reconnectAttempts,
  agentState,
  intentionalClose,
  hasBufferedAudio,
  bufferedSamples,
  hasReceivedAudio,
  sessionUpdateSent,
  pendingClear,
  activeResponseCount,
  cancelPending,
  allowInterruptions,  \* fixed by the constructor
  hasApiKey,           \* overrideApiKey || VITE_OPENAI_API_KEY is non-empty
  eventHandlers,       \* TRUE while the handlers of useVoiceEmbed are registered on the client
  \* the browser
  sock,                \* the WebSocket objects
  timers,              \* pending setTimeout callbacks of the client's attemptReconnect
  formers,             \* the clients useVoiceEmbed held before this one, while they live on
  \* AudioManager (playback half)
  audioContext,        \* TRUE when an AudioContext exists and is not closed
  audioQueue,          \* number of buffers queued
  isPlayingAudio,
  currentSource,       \* TRUE when currentSource is not null
  playing,             \* sources started and neither ended nor stopped
  stopping,            \* sources stopped by stop() whose ended event has not fired yet
  unresolved,          \* promises playAudioData returned whose resolve has not been called
  \* AudioManager (initialization)
  isInitializing,
  isInitialized,
  isClosing,
  initializationPromise, \* TRUE when initializationPromise is not null
  stream,              \* TRUE when this.stream holds a MediaStream
  inits,               \* performInitialization runs waiting for getUserMedia
  \* AudioManager (capture half)
  microphone,          \* TRUE when this.microphone holds the MediaStreamAudioSourceNode
  onAudioDataCallback, \* TRUE when a capture sink is registered
  workletNode,         \* TRUE when this.workletNode holds an AudioWorkletNode
  workletReady,
  connected,           \* the source in this.microphone feeds the node in this.workletNode
  loads,               \* startCapture calls waiting for audioWorklet.addModule
  staleLoads,          \* those of them whose addModule was called on an AudioContext since released
  registered,          \* the worklet module is registered on the AudioContext held
  \* history
  last,                \* what the last step was and what it put out
  lostOpen,            \* an open connection was lost and only the timer has acted since
  calls,               \* the function calls: how far each is, and the outputs sent for it
  norm,                \* the last reconciliation: schema, raw arguments, result
  pcm,                 \* a 16-bit sample on its way through playback decoding and capture encoding
  worklet,             \* the PCMDownsamplerProcessor, the signal fed to it and its output
  utterance,           \* speech_started events and clears since the last speech_stopped
  appended,            \* samples transmitted since the last clear, commit, speech event or cancel
  runClears,           \* input_audio_buffer.clear transmitted in the current run of frames
  cancelInFlight,      \* a response.cancel was transmitted and nothing has finished since
  \* useVoiceEmbed
  transcripts,         \* transcriptsRef: the buffers of each speaker and the active item ids
  messages,            \* the conversation: the finalized messages, oldest first
  hook                 \* the refs of useVoiceEmbed and its beginCapture() calls in flight

vars == <<ws, reconnectAttempts, agentState, intentionalClose, hasBufferedAudio,
          bufferedSamples, hasReceivedAudio, sessionUpdateSent, pendingClear,
          activeResponseCount, cancelPending, allowInterruptions, hasApiKey,
          eventHandlers, sock, timers, formers, audioContext, audioQueue, isPlayingAudio,
          currentSource, playing, stopping, unresolved,
          isInitializing, isInitialized, isClosing, initializationPromise, stream, inits,
          microphone, onAudioDataCallback, workletNode, workletReady, connected, loads,
          staleLoads, registered,
          last, lostOpen, calls, norm, pcm, worklet, utterance, appended, runClears, cancelInFlight,
          transcripts, messages, hook>>

Min(a, b) == IF a < b THEN a ELSE b
Max(a, b) == IF a > b THEN a ELSE b

\* A WebSocket object.  st is what the browser has done with it:
\*   connecting  readyState CONNECTING
\*   open        readyState OPEN
\*   failing     close() was called before the handshake ended: readyState CLOSING,
\*               the error and close events are still to be delivered
\*   errored     the connection failed: readyState CLOSED, onerror has run and
\*               onclose runs next in the same task
\*   closing     readyState CLOSING or CLOSED, the close event is still to be delivered
\*   closed      readyState CLOSED, every event delivered (the slot is free again)
\* promise is the promise of the connect() call that created the socket, and owner
\* the client whose callbacks it carries: 0 for the client of the variables above, else
\* its place in formers.
ClosedSocket ==
  [st |-> "closed", promise |-> "none", updates |-> 0,
   appendFirst |-> FALSE, clears |-> 0, response |-> FALSE, owner |-> 0]

NewSocket ==
  [st |-> "connecting", promise |-> "pending", updates |-> 0,
   appendFirst |-> FALSE, clears |-> 0, response |-> FALSE, owner |-> 0]

\* The fields of a RealtimeAPIClient and its pending timers, as the constructor leaves
\* them for useVoiceEmbed (allowInterruptions: true) before any handler is attached.
NoClient ==
  [ws |-> 0, reconnectAttempts |-> 0, agentState |-> "idle", intentionalClose |-> FALSE,
   hasBufferedAudio |-> FALSE, bufferedSamples |-> 0, hasReceivedAudio |-> FALSE,
   sessionUpdateSent |-> FALSE, pendingClear |-> TRUE, activeResponseCount |-> 0,
   cancelPending |-> FALSE, allowInterruptions |-> TRUE, eventHandlers |-> FALSE,
   timers |-> 0]

Live(s) == s.st \in {"connecting", "open"}

\* A function call as the client tracks it, the function_call event of a step, the
\* outcome of executeTool, and the reconciliation kept for inspection.
\* client is, for a call whose client useVoiceEmbed has let go of, that client's place
\* in formers (0 once it has neither socket nor timer left).
NoCall == [st |-> "none", outputs |-> 0, conn |-> 0, stale |-> FALSE, client |-> 0]
NoEvent == [id |-> 0, named |-> FALSE, session |-> FALSE, known |-> FALSE]
NoNested == [key |-> "none", list |-> <<>>]
NoTool == [threw |-> FALSE, invoked |-> "none", payload |-> "none",
           parameters |-> "none", params |-> <<>>, nested |-> NoNested,
           children |-> <<>>]
NoNorm == [schema |-> "none", rawArgs |-> <<>>, done |-> FALSE, normalized |-> <<>>,
           missingRequired |-> <<>>, threw |-> FALSE, logs |-> <<>>]

\* The number 0 and NaN (the numbers are written out with the worklet, below).
Zero == [k |-> "num", neg |-> FALSE, m |-> <<>>, e |-> 0]
NaN == [k |-> "nan", neg |-> FALSE, m |-> <<>>, e |-> 0]
NoPcm == [x |-> 0, float |-> Zero, y |-> 0, st |-> "none"]
NoWorklet == [sampleRate |-> 0, targetSampleRate |-> 0, sampleRateRatio |-> Zero,
              phase |-> Zero, signal |-> <<>>, fed |-> 0, output |-> <<>>,
              posted |-> <<>>, overrun |-> FALSE]

\* The transcript buffers of useVoiceEmbed: a buffer is a property of the speaker's
\* object, present or deleted; a text is the sequence of its characters.
Roles == {"user", "assistant"}
ItemIds == {"item_1", "item_2"}
fallbackId(role) == role \o "-default"
NoBuffer == [has |-> FALSE, text |-> <<>>]
NoBuffers(role) == [id \in ItemIds \cup {fallbackId(role)} |-> NoBuffer]
NoTranscripts ==
  [user |-> NoBuffers("user"), assistant |-> NoBuffers("assistant"),
   activeUserId |-> "none", activeAssistantId |-> "none"]
NoTranscriptEvent == [role |-> "none", itemId |-> "none", text |-> <<>>]

\* One beginCapture() that startRecording awaits.  at is where it is:
\*   fetch         in ensureSession, awaiting the fetch of the session
\*   connect       in ensureSession, awaiting realtimeClient.connect()
\*   initialize    awaiting audioManager.initialize()
\*   startCapture  awaiting audioManager.startCapture(sink)
\*   done, failed  settled: it returned, or threw into the catch of startRecording
\* and sock, init and load are what it awaits there: the socket of the connect(), the
\* getUserMedia request that settles the initialization (its place among the pending
\* ones, the oldest being 1), the addModule call of its startCapture (likewise).
\* turn is its place among the calls that await the same initialization, in the
\* order in which they began to wait, which is the order in which they go on.
NoRun == [at |-> "fetch", sock |-> 0, init |-> 0, load |-> 0, turn |-> 0]

\* useVoiceEmbed before anything is started.  runs are the beginCapture() calls in
\* flight, the oldest first, and ended is how the last one to settle ended (idle: none
\* has settled since the last startRecording).  client and manager are whether
\* realtimeClientRef and audioManagerRef hold an object, intent and active are
\* userMicIntentRef and hasActiveSessionRef, and stopped is whether stopRecording or
\* stopSession was called while a beginCapture() was in flight and startRecording
\* has not been called since.
NoHook ==
  [runs |-> <<>>, ended |-> "idle", client |-> FALSE, manager |-> FALSE,
   intent |-> FALSE, active |-> FALSE, isRecording |-> FALSE, stopped |-> FALSE]

NoOutput ==
  [op |-> "init", emitted |-> <<>>, sent |-> <<>>, scheduled |-> FALSE,
   preState |-> "idle", preActive |-> FALSE, prePending |-> FALSE,
   preOpen |-> FALSE, preQueued |-> FALSE, preInFlight |-> FALSE,
   preIntentional |-> FALSE, preAttempts |-> 0, preAppended |-> 0,
   opened |-> FALSE, call |-> NoEvent, settled |-> 0, tool |-> NoTool,
   preInits |-> 0, requested |-> FALSE, joined |-> FALSE, threw |-> FALSE,
   force |-> FALSE, error |-> "none", started |-> FALSE, postOpen |-> FALSE,
   repeat |-> FALSE, frame |-> "none", caught |-> FALSE, delay |-> 0,
   event |-> NoTranscriptEvent, decodable |-> TRUE]

\* The whole state as one record, so that a handler is a function from state to state.
World ==
  [ws |-> ws, reconnectAttempts |-> reconnectAttempts, agentState |-> agentState,
   intentionalClose |-> intentionalClose, hasBufferedAudio |-> hasBufferedAudio,
   bufferedSamples |-> bufferedSamples, hasReceivedAudio |-> hasReceivedAudio,
   sessionUpdateSent |-> sessionUpdateSent, pendingClear |-> pendingClear,
   activeResponseCount |-> activeResponseCount, cancelPending |-> cancelPending,
   allowInterruptions |-> allowInterruptions, hasApiKey |-> hasApiKey,
   eventHandlers |-> eventHandlers, sock |-> sock, timers |-> timers,
   formers |-> formers,
   audioContext |-> audioContext, audioQueue |-> audioQueue,
   isPlayingAudio |-> isPlayingAudio, currentSource |-> currentSource,
   playing |-> playing, stopping |-> stopping, unresolved |-> unresolved,
   isInitializing |-> isInitializing, isInitialized |-> isInitialized,
   isClosing |-> isClosing, initializationPromise |-> initializationPromise,
   stream |-> stream, inits |-> inits, microphone |-> microphone,
   onAudioDataCallback |-> onAudioDataCallback, workletNode |-> workletNode,
   workletReady |-> workletReady, connected |-> connected, loads |-> loads,
   staleLoads |-> staleLoads, registered |-> registered,
   last |-> last, lostOpen |-> lostOpen,
   utterance |-> utterance, appended |-> appended, calls |-> calls, norm |-> norm,
   pcm |-> pcm, worklet |-> worklet,
   runClears |-> runClears,
   cancelInFlight |-> cancelInFlight,
   transcripts |-> transcripts, messages |-> messages, hook |-> hook]

\* What is kept of a step for the next state: the outputs and the facts about the
\* state before, for the steps the properties below look at; of the others nothing.
Observed(l) ==
  CASE l.op = "input_audio_buffer.speech_started" ->
         [l EXCEPT !.preIntentional = FALSE, !.preAttempts = 0, !.preAppended = 0,
                   !.repeat = FALSE]
    [] l.op = "onclose" ->
         [NoOutput EXCEPT !.op = l.op, !.emitted = l.emitted, !.scheduled = l.scheduled,
                          !.opened = l.opened, !.preAttempts = l.preAttempts,
                          !.delay = l.delay]
    [] l.op \in {"sendAudio", "sendSessionUpdate", "updateSessionConfig"} ->
         [NoOutput EXCEPT !.op = l.op, !.sent = l.sent, !.preOpen = l.preOpen]
    [] l.op = "commitAudio" ->
         [NoOutput EXCEPT !.op = l.op, !.sent = l.sent, !.preOpen = l.preOpen,
                          !.preAppended = l.preAppended]
    [] l.op \in {"response.function_call_arguments.done", "toolSettled"} ->
         [NoOutput EXCEPT !.op = l.op, !.sent = l.sent, !.emitted = l.emitted,
                          !.preOpen = l.preOpen, !.call = l.call, !.settled = l.settled,
                          !.tool = l.tool, !.postOpen = l.postOpen]
    [] l.op = "cancelResponse" ->
         [NoOutput EXCEPT !.op = l.op, !.sent = l.sent, !.preActive = l.preActive,
                          !.prePending = l.prePending, !.preInFlight = l.preInFlight]
    [] l.op \in {"playAudioData", "stopPlayback"} -> [NoOutput EXCEPT !.op = l.op]
    [] l.op = "initialize" ->
         [NoOutput EXCEPT !.op = l.op, !.preInits = l.preInits, !.requested = l.requested,
                          !.joined = l.joined, !.threw = l.threw]
    [] l.op = "close" ->
         [NoOutput EXCEPT !.op = l.op, !.force = l.force, !.repeat = l.repeat]
    [] l.op = "disconnect" -> [NoOutput EXCEPT !.op = l.op, !.repeat = l.repeat]
    [] l.op = "onmessage" ->
         [NoOutput EXCEPT !.op = l.op, !.frame = l.frame, !.emitted = l.emitted,
                          !.error = l.error, !.threw = l.threw, !.caught = l.caught]
    [] l.op \in {"startCapture", "addModule"} ->
         [NoOutput EXCEPT !.op = l.op, !.error = l.error, !.requested = l.requested,
                          !.started = l.started]
    [] l.op = "timer" -> [NoOutput EXCEPT !.op = l.op, !.preIntentional = l.preIntentional]
    [] l.op = "executeTool" -> [NoOutput EXCEPT !.op = l.op, !.tool = l.tool]
    [] l.op = "transcript.done" -> [NoOutput EXCEPT !.op = l.op, !.event = l.event]
    [] OTHER -> [NoOutput EXCEPT !.op = "other"]

\* What is noted about the calls as a step ends: a call whose tool is still executing
\* is stale once the socket its function call arrived on is closed or is no longer
\* the client's socket; the socket is forgotten when the call is stale or answered.
Tracked(R) ==
  [c \in DOMAIN R.calls |->
     LET call == R.calls[c]
     IN  IF call.st = "running" /\ call.conn # 0
           THEN IF R.ws = call.conn /\ R.sock[call.conn].st = "open"
                  THEN call
                  ELSE [call EXCEPT !.stale = TRUE, !.conn = 0]
           ELSE [call EXCEPT !.conn = 0]]

RECURSIVE formerTimers(_, _)
formerTimers(R, i) == IF i = 0 THEN 0 ELSE R.formers[i].timers + formerTimers(R, i - 1)

InFlight == {"fetch", "connect", "initialize", "startCapture"}

\* The beginCapture() calls that have settled in a step leave the list: the last of
\* them is how the last one ended.
settleRuns(h) ==
  LET over == SelectSeq(h.runs, LAMBDA run : run.at \notin InFlight)
  IN  [h EXCEPT !.runs = SelectSeq(h.runs, LAMBDA run : run.at \in InFlight),
                !.ended = IF over = <<>> THEN h.ended ELSE over[Len(over)].at]

\* The counters of what the browser and the upstream still owe stay within their
\* bounds: a step that would take one beyond is not followed.
WithinBounds(R) ==
  /\ Len(R.hook.runs) <= MaxStarts
  /\ R.inits <= MaxInits
  /\ R.loads <= MaxLoads
  /\ R.playing <= MaxSources
  /\ R.stopping <= MaxSources
  /\ \A k \in Slots : R.sock[k].clears <= MaxClears
  /\ \A k \in Slots : R.sock[k].updates <= MaxCounted
  /\ R.runClears <= MaxCounted
  /\ \A c \in CallIds : R.calls[c].outputs <= MaxCounted
  /\ R.appended <= MaxBuffered
  /\ R.timers + formerTimers(R, MaxFormer) <= MaxTimers

Commit(R) ==
  \E U \in {R} : \E T \in {[U EXCEPT !.hook = settleRuns(U.hook)]} :
    /\ WithinBounds(T)
    /\ ws' = T.ws
    /\ reconnectAttempts' = T.reconnectAttempts
    /\ agentState' = T.agentState
    /\ intentionalClose' = T.intentionalClose
    /\ hasBufferedAudio' = T.hasBufferedAudio
    /\ bufferedSamples' = T.bufferedSamples
    /\ hasReceivedAudio' = T.hasReceivedAudio
    /\ sessionUpdateSent' = T.sessionUpdateSent
    /\ pendingClear' = T.pendingClear
    /\ activeResponseCount' = T.activeResponseCount
    /\ cancelPending' = T.cancelPending
    /\ allowInterruptions' = T.allowInterruptions
    /\ hasApiKey' = T.hasApiKey
    /\ eventHandlers' = T.eventHandlers
    /\ sock' = T.sock
    /\ timers' = T.timers
    /\ formers' = T.formers
    /\ audioContext' = T.audioContext
    /\ audioQueue' = T.audioQueue
    /\ isPlayingAudio' = T.isPlayingAudio
    /\ currentSource' = T.currentSource
    /\ playing' = T.playing
    /\ stopping' = T.stopping
    /\ unresolved' = T.unresolved
    /\ isInitializing' = T.isInitializing
    /\ isInitialized' = T.isInitialized
    /\ isClosing' = T.isClosing
    /\ initializationPromise' = T.initializationPromise
    /\ stream' = T.stream
    /\ inits' = T.inits
    /\ microphone' = T.microphone
    /\ onAudioDataCallback' = T.onAudioDataCallback
    /\ workletNode' = T.workletNode
    /\ workletReady' = T.workletReady
    /\ connected' = T.connected
    /\ loads' = T.loads
    /\ staleLoads' = T.staleLoads
    /\ registered' = T.registered
    /\ last' = Observed(T.last)
    /\ lostOpen' = T.lostOpen
    /\ utterance' = T.utterance
    /\ calls' = Tracked(T)
    /\ norm' = T.norm
    /\ pcm' = T.pcm
    /\ worklet' = T.worklet
    /\ appended' = T.appended
    /\ runClears' = T.runClears
    /\ cancelInFlight' = T.cancelInFlight
    /\ transcripts' = T.transcripts
    /\ messages' = T.messages
    /\ hook' = T.hook

\* The state a step starts from: the outputs of the previous step are forgotten and
\* the facts about the state before the step are noted.
Begin(op) ==
  [World EXCEPT !.last =
    [NoOutput EXCEPT !.op = op,
                     !.preState = agentState,
                     !.preActive = activeResponseCount > 0,
                     !.prePending = cancelPending,
                     !.preOpen = ws # 0 /\ sock[ws].st = "open",
                     !.preQueued = audioQueue > 0 \/ isPlayingAudio,
                     !.preInFlight = cancelInFlight,
                     !.preIntentional = intentionalClose,
                     !.preAttempts = reconnectAttempts,
                     !.preAppended = appended,
                     !.preInits = inits,
                     !.repeat = (last.op = op)]]

\* ------------------------------------------------------ several clients
\* A client useVoiceEmbed has let go of lives on while it has a socket or a timer:
\* their callbacks are bound to it.  The handlers below are written for the client of
\* the variables; for a step of another client the two change places, the handler
\* runs, and they change back.
clientOf(R) ==
  [ws |-> R.ws, reconnectAttempts |-> R.reconnectAttempts, agentState |-> R.agentState,
   intentionalClose |-> R.intentionalClose, hasBufferedAudio |-> R.hasBufferedAudio,
   bufferedSamples |-> R.bufferedSamples, hasReceivedAudio |-> R.hasReceivedAudio,
   sessionUpdateSent |-> R.sessionUpdateSent, pendingClear |-> R.pendingClear,
   activeResponseCount |-> R.activeResponseCount, cancelPending |-> R.cancelPending,
   allowInterruptions |-> R.allowInterruptions, eventHandlers |-> R.eventHandlers,
   timers |-> R.timers]

withClient(R, c) ==
  [R EXCEPT !.ws = c.ws, !.reconnectAttempts = c.reconnectAttempts,
            !.agentState = c.agentState, !.intentionalClose = c.intentionalClose,
            !.hasBufferedAudio = c.hasBufferedAudio, !.bufferedSamples = c.bufferedSamples,
            !.hasReceivedAudio = c.hasReceivedAudio,
            !.sessionUpdateSent = c.sessionUpdateSent, !.pendingClear = c.pendingClear,
            !.activeResponseCount = c.activeResponseCount,
            !.cancelPending = c.cancelPending,
            !.allowInterruptions = c.allowInterruptions,
            !.eventHandlers = c.eventHandlers, !.timers = c.timers]

\* The sockets of the client of the variables become those of client i, and the other
\* way round.
retag(socks, i) ==
  [k \in Slots |->
     IF socks[k].st = "closed" THEN ClosedSocket
     ELSE IF socks[k].owner = 0 THEN [socks[k] EXCEPT !.owner = i]
     ELSE IF socks[k].owner = i THEN [socks[k] EXCEPT !.owner = 0]
     ELSE socks[k]]

Swap(R, i) ==
  IF i = 0 THEN R
  ELSE [withClient(R, R.formers[i]) EXCEPT !.formers[i] = clientOf(R),
                                          !.sock = retag(R.sock, i)]

\* A client has nothing left to do once no timer of its is pending and every socket
\* of its is closed: no callback of its will run.
quiet(R, i) ==
  IF i = 0
    THEN R.timers = 0 /\ \A k \in Slots : R.sock[k].st # "closed" => R.sock[k].owner # 0
    ELSE R.formers[i].timers = 0 /\ \A k \in Slots : R.sock[k].owner # i

\* What is kept of the former clients: of one with nothing left to do, nothing; of
\* the others all fields, a socket held that is closed counting for none (nothing
\* but send() and the next connect() will look at it).
Settled(R) ==
  [R EXCEPT
     !.formers = [i \in Formers |->
                    IF quiet(R, i) THEN NoClient
                    ELSE [R.formers[i] EXCEPT !.ws =
                            IF @ # 0 /\ R.sock[@].owner # i THEN 0 ELSE @]],
     !.calls = [c \in DOMAIN R.calls |->
                  IF R.calls[c].client # 0 /\ quiet(R, R.calls[c].client)
                    THEN [R.calls[c] EXCEPT !.client = 0]
                    ELSE R.calls[c]]]

\* The step of client i is over: R0 is the state it started from.  What the
\* properties below follow of a client (last, and the history of its audio and of its
\* connection) is the client of the variables.
Back(R0, R, i, visible) ==
  IF i = 0 THEN R
  ELSE Settled([Swap(R, i) EXCEPT
                  !.lostOpen = R0.lostOpen, !.utterance = R0.utterance,
                  !.appended = R0.appended, !.runClears = R0.runClears,
                  !.cancelInFlight = R0.cancelInFlight,
                  !.last = IF visible THEN R.last ELSE [NoOutput EXCEPT !.op = "other"]])


\* ------------------------------------------------ mcp-normalizer.ts
\* Strings are spelled out where the code looks inside them.  An object is the sequence
\* of its <<key, value>> entries in insertion order; the values here are strings and
\* the schema properties are of type string, as in the tools' email schema.
Spelling ==
  [s \in {"to", "Subject", "subject", "message", "body", "recipient_email", "x",
          "a@x.com", "Hi", "Hello", "hi", "hello", " ", "",
          "b@x.com", "bodytext_bodytext", "bodytext", "BodyText", "cc", "bcc",
          "send_email", "add_note", "compose_mail", "lookup", "Send-Email"} |->
     CASE s = "to"              -> <<"t", "o">>
       [] s = "Subject"         -> <<"S", "u", "b", "j", "e", "c", "t">>
       [] s = "subject"         -> <<"s", "u", "b", "j", "e", "c", "t">>
       [] s = "message"         -> <<"m", "e", "s", "s", "a", "g", "e">>
       [] s = "body"            -> <<"b", "o", "d", "y">>
       [] s = "recipient_email" -> <<"r", "e", "c", "i", "p", "i", "e", "n", "t", "_",
                                     "e", "m", "a", "i", "l">>
       [] s = "x"               -> <<"x">>
       [] s = "b@x.com"         -> <<"b", "@", "x", ".", "c", "o", "m">>
       [] s = "bodytext_bodytext" ->
            <<"b", "o", "d", "y", "t", "e", "x", "t", "_",
              "b", "o", "d", "y", "t", "e", "x", "t">>
       [] s = "bodytext"        -> <<"b", "o", "d", "y", "t", "e", "x", "t">>
       [] s = "BodyText"        -> <<"B", "o", "d", "y", "T", "e", "x", "t">>
       [] s = "a@x.com"         -> <<"a", "@", "x", ".", "c", "o", "m">>
       [] s = "Hi"              -> <<"H", "i">>
       [] s = "Hello"           -> <<"H", "e", "l", "l", "o">>
       [] s = "hi"              -> <<"h", "i">>
       [] s = "hello"           -> <<"h", "e", "l", "l", "o">>
       [] s = " "               -> <<" ">>
       [] s = "cc"              -> <<"c", "c">>
       [] s = "bcc"             -> <<"b", "c", "c">>
       [] s = "send_email"      -> <<"s", "e", "n", "d", "_", "e", "m", "a", "i", "l">>
       [] s = "add_note"        -> <<"a", "d", "d", "_", "n", "o", "t", "e">>
       [] s = "compose_mail"    -> <<"c", "o", "m", "p", "o", "s", "e", "_", "m", "a", "i", "l">>
       [] s = "lookup"          -> <<"l", "o", "o", "k", "u", "p">>
       [] s = "Send-Email"      -> <<"S", "e", "n", "d", "-", "E", "m", "a", "i", "l">>
       [] OTHER                 -> <<>>]

\* The string with the given spelling.
Text(cs) == CHOOSE s \in DOMAIN Spelling : Spelling[s] = cs

UpperCase == <<"A", "B", "C", "D", "E", "F", "G", "H", "I", "J", "K", "L", "M",
               "N", "O", "P", "Q", "R", "S", "T", "U", "V", "W", "X", "Y", "Z">>
LowerCase == <<"a", "b", "c", "d", "e", "f", "g", "h", "i", "j", "k", "l", "m",
               "n", "o", "p", "q", "r", "s", "t", "u", "v", "w", "x", "y", "z">>
Digits == {"0", "1", "2", "3", "4", "5", "6", "7", "8", "9"}

Range(seq) == {seq[i] : i \in 1..Len(seq)}

IsUpper(c) == c \in Range(UpperCase)
IsLower(c) == c \in Range(LowerCase)

\* with(value, In): In of the value, the value worked out once and then held, as a
\* const is.
With(value, In(_)) == CHOOSE result \in {In(v) : v \in {value}} : TRUE

\* String.prototype.toLowerCase, by character.
toLowerCase(string) ==
  With(string, LAMBDA cs :
    LET lowered == [i \in 1..Len(cs) |->
                      IF IsUpper(cs[i])
                        THEN LowerCase[CHOOSE j \in 1..Len(UpperCase) : UpperCase[j] = cs[i]]
                        ELSE cs[i]]
    IN  SubSeq(lowered, 1, Len(cs)))

IsAlnum(c) == IsLower(c) \/ c \in Digits

\* String.prototype.includes
includes(string, sub) ==
  With(string, LAMBDA cs :
    \E i \in 0..(Len(cs) - Len(sub)) : SubSeq(cs, i + 1, i + Len(sub)) = sub)

\* String.prototype.trim
RECURSIVE trimStart(_)
trimStart(string) ==
  With(string, LAMBDA cs :
    IF cs # <<>> /\ Head(cs) = " " THEN trimStart(Tail(cs)) ELSE cs)

RECURSIVE trimEnd(_)
trimEnd(string) ==
  With(string, LAMBDA cs :
    IF cs # <<>> /\ cs[Len(cs)] = " " THEN trimEnd(SubSeq(cs, 1, Len(cs) - 1)) ELSE cs)

trim(cs) == trimEnd(trimStart(cs))

\* String.prototype.split on any character of seps: the pieces, empty ones included.
RECURSIVE split(_, _)
split(string, seps) ==
  With(string, LAMBDA cs :
    IF \A i \in 1..Len(cs) : cs[i] \notin seps
      THEN <<cs>>
      ELSE With(CHOOSE i \in 1..Len(cs) :
                  cs[i] \in seps /\ \A j \in 1..(i - 1) : cs[j] \notin seps,
                LAMBDA i :
                  <<SubSeq(cs, 1, i - 1)>> \o split(SubSeq(cs, i + 1, Len(cs)), seps)))

\* Array.prototype.join
RECURSIVE join(_, _)
join(pieces, sep) ==
  With(pieces, LAMBDA parts :
    IF parts = <<>> THEN <<>>
    ELSE IF Len(parts) = 1 THEN parts[1]
    ELSE parts[1] \o sep \o join(Tail(parts), sep))

NonEmptyPiece(p) == p # <<>>

\* normalizeFieldName: lowercase, non-alphanumerics removed.
normalizeFieldName(cs) == SelectSeq(toLowerCase(cs), IsAlnum)

\* tokenize: - _ . become blanks, a blank goes between a lowercase and an uppercase
\* letter, then lowercase and split on whitespace.
RECURSIVE splitCamel(_)
splitCamel(string) ==
  With(string, LAMBDA cs :
    IF Len(cs) < 2 THEN cs
    ELSE IF IsLower(cs[1]) /\ IsUpper(cs[2])
      THEN <<cs[1], " ">> \o splitCamel(Tail(cs))
      ELSE <<cs[1]>> \o splitCamel(Tail(cs)))

tokenize(string) ==
  With(string, LAMBDA cs :
    LET cleaned == [i \in 1..Len(cs) |-> IF cs[i] \in {"-", "_", "."} THEN " " ELSE cs[i]]
    IN  SelectSeq(split(toLowerCase(splitCamel(SubSeq(cleaned, 1, Len(cs)))), {" "}),
                  NonEmptyPiece))

\* tokenSimilarity(a, b) >= 0.6, and the order of two scores, in integers: a score is the
\* pair <<intersection, union>> of the two token sets.
tokenSimilarity(a, b) ==
  With(Range(tokenize(a)), LAMBDA A :
  With(Range(tokenize(b)), LAMBDA B :
    IF A = {} \/ B = {}
      THEN <<0, 1>>
      ELSE <<Cardinality(A \cap B), Cardinality(A \cup B)>>))

ScoreAtLeastThreshold(s) == 10 * s[1] >= 6 * s[2]
ScoreGreater(s, t) == s[1] * t[2] > t[1] * s[2]

\* globalConceptSynonyms, for the concepts of the email schema.
globalConceptSynonyms(concept) ==
  CASE concept = "recipient_email" ->
         << <<"t", "o">>, <<"e", "m", "a", "i", "l">>,
            <<"r", "e", "c", "i", "p", "i", "e", "n", "t">>,
            Spelling["recipient_email"],
            <<"m", "a", "i", "l", "_", "t", "o">>, <<"s", "e", "n", "d", "_", "t", "o">>,
            <<"a", "d", "d", "r", "e", "s", "s">> >>
    [] concept = "cc" ->
         << <<"c", "c">>, <<"c", "a", "r", "b", "o", "n", "_", "c", "o", "p", "y">>,
            <<"c", "o", "p", "y">> >>
    [] concept = "bcc" ->
         << <<"b", "c", "c">>, <<"b", "l", "i", "n", "d", "_", "c", "o", "p", "y">> >>
    [] concept = "subject" ->
         << Spelling["subject"], <<"t", "i", "t", "l", "e">>, <<"t", "o", "p", "i", "c">>,
            <<"h", "e", "a", "d", "l", "i", "n", "e">> >>
    [] concept = "body" ->
         << Spelling["body"], Spelling["message"], <<"m", "s", "g">>,
            <<"c", "o", "n", "t", "e", "n", "t">>, <<"t", "e", "x", "t">> >>
    [] OTHER -> <<>>

\* guessConceptForSchemaKey, as far as the tests for the concepts above go; "" stands for
\* undefined and for the concepts (query, url, amount, date, phone) no key here reaches.
guessConceptForSchemaKey(schemaKey) ==
  With(toLowerCase(Spelling[schemaKey]), LAMBDA key :
    IF includes(key, <<"b", "c", "c">>) THEN "bcc"
    ELSE IF includes(key, <<"c", "c">>) THEN "cc"
    ELSE IF includes(key, <<"e", "m", "a", "i", "l">>) THEN "recipient_email"
    ELSE IF key = <<"t", "o">>
              \/ includes(key, <<"r", "e", "c", "i", "p", "i", "e", "n", "t">>)
      THEN "recipient_email"
    ELSE IF includes(key, Spelling["subject"]) \/ includes(key, <<"t", "i", "t", "l", "e">>)
      THEN "subject"
    ELSE IF includes(key, Spelling["body"]) \/ includes(key, Spelling["message"])
              \/ includes(key, <<"c", "o", "n", "t", "e", "n", "t">>)
      THEN "body"
    ELSE "")

\* isRecipientField
isRecipientField(schemaKey) ==
  With(normalizeFieldName(Spelling[schemaKey]), LAMBDA normalized :
    \E token \in {<<"r", "e", "c", "i", "p", "i", "e", "n", "t">>,
                  <<"r", "e", "c", "i", "p", "i", "e", "n", "t", "e", "m", "a", "i", "l">>,
                  <<"e", "m", "a", "i", "l">>, <<"t", "o">>, <<"b", "c", "c">>,
                  <<"c", "c">>} :
      includes(normalized, token))

\* isEmptyValue, of a string.
isEmptyValue(value) == trim(Spelling[value]) = <<>>

\* normalizeRecipientValue of a string, under a schema of type string: split on , and ;
\* trim and lowercase the pieces, drop the empty ones, join with ", ".
normalizeRecipientValue(value) ==
  With(split(Spelling[value], {",", ";"}), LAMBDA pieces :
    LET cleaned == [i \in 1..Len(pieces) |-> toLowerCase(trim(pieces[i]))]
    IN  Text(join(SelectSeq(cleaned, NonEmptyPiece), <<",", " ">>)))

\* alignValueWithSchema of a string value under a property of type string without enum:
\* coerceValue leaves it as it is.
alignValueWithSchema(value, schemaKey) ==
  IF isRecipientField(schemaKey) THEN normalizeRecipientValue(value) ELSE value

\* The last segment of a path: path.split(/[.\s]/), last piece.
lastSegment(cs) ==
  With(split(cs, {".", " "}), LAMBDA parts : parts[Len(parts)])

\* buildCandidateMap, as the list of candidates in the order they are made: of every
\* entry one under its normalized key and, when the key is a path, one under its last
\* segment.  The values are strings, so there are no children to visit.
RECURSIVE buildCandidateMap(_)
buildCandidateMap(object) ==
  With(object, LAMBDA args :
    IF args = <<>> THEN <<>>
    ELSE With(Spelling[args[1][1]], LAMBDA path :
         With(lastSegment(path), LAMBDA seg :
         With([normalizedKey |-> normalizeFieldName(path), rawKey |-> args[1][1],
               value |-> args[1][2]], LAMBDA own :
           <<own>>
             \o (IF seg # <<>> /\ seg # path
                   THEN <<[own EXCEPT !.normalizedKey = normalizeFieldName(seg)]>>
                   ELSE <<>>)
             \o buildCandidateMap(Tail(args))))))

\* Array.from(candidateMap.values()).flat(): the buckets one after the other, in the
\* order their keys were first seen.
RECURSIVE allCandidates(_)
allCandidates(candidates) ==
  With(candidates, LAMBDA cands :
    IF cands = <<>> THEN <<>>
    ELSE LET SameKey(c)  == c.normalizedKey = cands[1].normalizedKey
             OtherKey(c) == c.normalizedKey # cands[1].normalizedKey
         IN  SelectSeq(cands, SameKey) \o allCandidates(SelectSeq(cands, OtherKey)))

NoCandidate == [normalizedKey |-> <<>>, rawKey |-> "", value |-> "", found |-> FALSE,
                reason |-> "No matching argument found"]

\* searchCandidate: the first candidate of the bucket of normalizedKey.
searchCandidate(cands, normalizedKey) ==
  With(normalizedKey, LAMBDA key :
    LET InBucket(c) == c.normalizedKey = key
    IN  With(SelectSeq(cands, InBucket), LAMBDA bucket :
          IF bucket = <<>> THEN NoCandidate
          ELSE [normalizedKey |-> bucket[1].normalizedKey, rawKey |-> bucket[1].rawKey,
                value |-> bucket[1].value, found |-> TRUE, reason |-> ""]))

\* The first synonym of the concept that has a candidate.
RECURSIVE searchSynonyms(_, _)
searchSynonyms(cands, list) ==
  With(list, LAMBDA synonyms :
    IF synonyms = <<>> THEN NoCandidate
    ELSE With(searchCandidate(cands, normalizeFieldName(synonyms[1])), LAMBDA candidate :
           IF candidate.found THEN candidate
           ELSE searchSynonyms(cands, Tail(synonyms))))

\* The fuzzy match: the first candidate with the highest score, when that is >= 0.6.
searchFuzzy(cands, schemaKey) ==
  With(allCandidates(cands), LAMBDA all :
  With(SubSeq([i \in 1..Len(all) |->
                 tokenSimilarity(Spelling[schemaKey], all[i].normalizedKey)],
              1, Len(all)),
       LAMBDA score :
    LET Best(i) == /\ ScoreAtLeastThreshold(score[i])
                   /\ \A j \in 1..Len(all) : ~ScoreGreater(score[j], score[i])
                   /\ \A j \in 1..(i - 1) : ScoreGreater(score[i], score[j])
    IN  IF \E i \in 1..Len(all) : Best(i)
          THEN With(CHOOSE i \in 1..Len(all) : Best(i), LAMBDA i :
                 [normalizedKey |-> all[i].normalizedKey, rawKey |-> all[i].rawKey,
                  value |-> all[i].value, found |-> TRUE,
                  reason |-> "Fuzzy token similarity match"])
          ELSE NoCandidate))

\* The loop body trying the concept's synonyms before the key itself.
matchSchemaKey_SynonymsFirst(cands, schemaKey) ==
  With(searchSynonyms(cands, globalConceptSynonyms(guessConceptForSchemaKey(schemaKey))),
       LAMBDA synonym :
    IF synonym.found THEN [synonym EXCEPT !.reason = "Concept-based synonym match"]
    ELSE With(searchCandidate(cands, normalizeFieldName(Spelling[schemaKey])),
              LAMBDA direct :
                IF direct.found
                  THEN [direct EXCEPT !.reason = "Direct key match (normalized)"]
                  ELSE searchFuzzy(cands, schemaKey)))

\* The candidate a schema key takes: direct, by synonym, fuzzy, or none.
matchSchemaKey(cands, schemaKey) ==
  With(searchCandidate(cands, normalizeFieldName(Spelling[schemaKey])), LAMBDA direct :
    IF direct.found THEN [direct EXCEPT !.reason = "Direct key match (normalized)"]
    ELSE With(searchSynonyms(cands,
                             globalConceptSynonyms(guessConceptForSchemaKey(schemaKey))),
              LAMBDA synonym :
                IF synonym.found
                  THEN [synonym EXCEPT !.reason = "Concept-based synonym match"]
                  ELSE searchFuzzy(cands, schemaKey)))

KeysOf(obj) == [i \in 1..Len(obj) |-> obj[i][1]]

\* Array.from(new Set(list)): every element once, at its first place.
RECURSIVE unique(_)
unique(elements) ==
  With(elements, LAMBDA list :
    IF list = <<>> THEN <<>>
    ELSE LET Other(x) == x # list[1]
         IN  <<list[1]>> \o unique(SelectSeq(Tail(list), Other)))

\* sanitizeOptionalFields reporting only the required fields that were matched empty.
sanitizeOptionalFields_EmptyOnly(normalized, required) ==
  LET Filled(e)       == ~isEmptyValue(e[2])
      EmptyRequired(e) == isEmptyValue(e[2]) /\ e[1] \in Range(required)
  IN  [sanitized |-> SelectSeq(normalized, Filled),
       missingRequired |-> unique(KeysOf(SelectSeq(normalized, EmptyRequired)))]

\* sanitizeOptionalFields: drop the empty values; missing are the required keys dropped
\* and the required keys absent, each once.
sanitizeOptionalFields(normalized, required) ==
  LET Filled(e)       == ~isEmptyValue(e[2])
      EmptyRequired(e) == isEmptyValue(e[2]) /\ e[1] \in Range(required)
  IN  With(SelectSeq(normalized, Filled), LAMBDA sanitized :
        LET Absent(req) == req \notin Range(KeysOf(sanitized))
        IN  [sanitized |-> sanitized,
             missingRequired |->
               unique(KeysOf(SelectSeq(normalized, EmptyRequired))
                        \o SelectSeq(required, Absent))])

\* One schema key of performNormalization's loop: the entry it adds to normalized, or
\* none.
normalizedEntry(cands, schemaKey) ==
  With(matchSchemaKey(cands, schemaKey), LAMBDA found :
    IF found.found
      THEN << <<schemaKey, alignValueWithSchema(found.value, schemaKey)>> >>
      ELSE <<>>)

\* The logs of the loop: for each schema key the raw key its value was taken from
\* and the stage that found it.
RECURSIVE normalizationLogs(_, _)
normalizationLogs(cands, schemaKeys) ==
  With(schemaKeys, LAMBDA keys :
    IF keys = <<>> THEN <<>>
    ELSE With(matchSchemaKey(cands, keys[1]), LAMBDA found :
           <<[targetKey |-> keys[1], fromKey |-> found.rawKey, reason |-> found.reason]>>
             \o normalizationLogs(cands, Tail(keys))))

RECURSIVE normalizedEntries(_, _)
normalizedEntries(cands, schemaKeys) ==
  With(schemaKeys, LAMBDA keys :
    IF keys = <<>> THEN <<>>
    ELSE normalizedEntry(cands, keys[1]) \o normalizedEntries(cands, Tail(keys)))

\* performNormalization of an arguments object under a resolved schema.
performNormalization(schema, rawArgs) ==
  IF schema.properties = <<>>
    THEN LET Filled(e) == ~isEmptyValue(e[2])
         IN  [normalized |-> SelectSeq(rawArgs, Filled), missingRequired |-> <<>>,
              logs |-> <<[targetKey |-> "*", fromKey |-> "",
                          reason |-> "No schema provided; cleaned raw arguments"]>>]
    ELSE
      With(buildCandidateMap(rawArgs), LAMBDA cands :
      With(normalizedEntries(cands, schema.properties), LAMBDA normalized :
      With(sanitizeOptionalFields(normalized, schema.required), LAMBDA clean :
        LET Extra(e) == e[1] \notin Range(schema.properties) /\ ~isEmptyValue(e[2])
            passthrough == SelectSeq(rawArgs, Extra)
        IN  [normalized |-> passthrough \o clean.sanitized,
             missingRequired |-> clean.missingRequired,
             logs |-> normalizationLogs(cands, schema.properties)])))

\* normalizeMCPArguments: throws MissingRequiredFieldsError when something is missing.
normalizeMCPArguments(schema, rawArgs) ==
  With(performNormalization(schema, rawArgs), LAMBDA result :
    IF result.missingRequired # <<>>
      THEN [threw |-> TRUE, missingFields |-> result.missingRequired, normalized |-> <<>>]
      ELSE [threw |-> FALSE, missingFields |-> <<>>, normalized |-> result.normalized])

\* ------------------------------------------------------------- tools
\* The schemas the tools declare: properties in declaration order (all of type string)
\* and the required list.
Schema(name) ==
  CASE name = "email"   -> [properties |-> <<"recipient_email", "subject", "body">>,
                            required |-> <<"recipient_email", "body">>]
    [] name = "note"    -> [properties |-> <<"subject", "body">>,
                            required |-> <<"subject">>]
    [] name = "bare"    -> [properties |-> <<>>, required |-> <<"x">>]
    [] name = "memo"    -> [properties |-> <<"recipient_email", "bodytext_bodytext">>,
                            required |-> <<>>]
    [] name = "fallback" -> [properties |-> <<"recipient_email", "subject", "body",
                                              "cc", "bcc">>,
                             required |-> <<"recipient_email", "body">>]

Schemas == {"email", "note", "bare"}

\* executeTool(toolName, params, context).  A tool that is found is recorded in the
\* outcome with its schema and the raw arguments.  tool is what getToolByName finds: known or
\* not, its executionType, whether a webhook tool has its integrationId, its schema.
\* executorOk is whether the executor, once invoked, resolves.  The insert of the
\* execution record resolves either way.
dispatch(tool, executorOk) ==
  IF tool.executionType = "webhook" /\ ~tool.integrationId
    THEN [NoTool EXCEPT !.payload = "error"]
    ELSE [NoTool EXCEPT
            !.invoked = IF tool.executionType = "webhook"
                          THEN "triggerN8NWebhook" ELSE "execute",
            !.payload = IF executorOk THEN "result" ELSE "error"]

\* normalizeIdentifier: lowercase, everything but a-z and 0-9 removed.
normalizeIdentifier(value) == SelectSeq(toLowerCase(value), IsAlnum)

\* The registered tools, in the order of registration: the name of each and the
\* schema it declares as its parameters.
mcpTools ==
  << [name |-> "send_email", parameters |-> "email"],
     [name |-> "add_note", parameters |-> "note"] >>

\* findToolSchemaBySlug: nothing for no slug; else the first registered tool whose
\* normalized name is the normalized slug.  The result is given as the schema of the
\* tool found, which is all getSchemaForChildTool takes from it.
findToolSchemaBySlug(slug) ==
  IF slug = "none" THEN "none"
  ELSE With(normalizeIdentifier(Spelling[slug]), LAMBDA normalizedSlug :
         LET matches == {i \in 1..Len(mcpTools) :
                           normalizeIdentifier(Spelling[mcpTools[i].name]) = normalizedSlug}
         IN  IF matches = {} THEN "none"
             ELSE mcpTools[CHOOSE i \in matches : \A j \in matches : i <= j].parameters)

\* getFallbackSchemaForSlug: the email schema for a slug that looks like sending mail.
getFallbackSchemaForSlug(slug) ==
  With(toLowerCase(Spelling[slug]), LAMBDA lower :
    LET Has(word) == includes(lower, word)
        isEmailTool == Has(<<"e", "m", "a", "i", "l">>) \/ Has(<<"m", "a", "i", "l">>)
        isSendLike  == \/ Has(<<"s", "e", "n", "d">>)
                       \/ Has(<<"c", "o", "m", "p", "o", "s", "e">>)
                       \/ Has(<<"d", "r", "a", "f", "t">>)
                       \/ Has(<<"r", "e", "p", "l", "y">>)
                       \/ Has(<<"f", "o", "r", "w", "a", "r", "d">>)
        isFetchLike == \/ Has(<<"f", "e", "t", "c", "h">>) \/ Has(<<"l", "i", "s", "t">>)
                       \/ Has(<<"g", "e", "t">>)
    IN  IF isEmailTool /\ isSendLike /\ ~isFetchLike THEN "fallback" ELSE "none")

\* No schema is looked up for an invocation without a slug.
getSchemaForChildTool(slug) ==
  IF slug = "none" THEN "none"
  ELSE With(findToolSchemaBySlug(slug), LAMBDA matchingTool :
         IF matchingTool # "none" THEN matchingTool
         ELSE getFallbackSchemaForSlug(slug))

\* The list of nested invocations in an arguments object: under tools or tool_calls.
\* The list is kept beside the string-valued entries (params): an array is not
\* descended into by buildCandidateMap, its key matches no key of the schemas here,
\* and the reconciliation under the parent's schema passes it through unless it is
\* empty (isEmptyValue: no element, or none but objects without a key).  An invocation is its slug, the key its arguments are under (parameters,
\* arguments or args; "none" without arguments) and the arguments.
getChildToolArrayKey(nested) ==
  IF /\ nested.key \in {"tools", "tool_calls"}
     /\ \E i \in 1..Len(nested.list) :
          nested.list[i].slug # "none" \/ nested.list[i].payload # "none"
    THEN nested.key
    ELSE "none"

\* One invocation of the map in normalizeNestedToolCalls, under a given schema.
normalizeChild(toolCall, schema) ==
  IF toolCall.slug = "none" \/ toolCall.payload = "none" \/ schema = "none"
    THEN [threw |-> FALSE, call |-> toolCall]
    ELSE With(normalizeMCPArguments(Schema(schema), toolCall.args), LAMBDA result :
           [threw |-> result.threw,
            call |-> [toolCall EXCEPT !.args = result.normalized]])

\* normalizeNestedToolCalls reconciling every invocation under the parent's schema.
normalizeNestedToolCalls_ParentSchema(parentSchema, nested) ==
  LET child(i) == normalizeChild(nested.list[i],
                    IF getSchemaForChildTool(nested.list[i].slug) = "none"
                      THEN "none" ELSE parentSchema)
  IN  [threw |-> \E i \in 1..Len(nested.list) : child(i).threw,
       list |-> [i \in 1..Len(nested.list) |-> child(i).call]]

\* normalizeNestedToolCalls: each invocation under the schema of the tool it names;
\* the error of normalizeMCPArguments leaves the map and the function.
normalizeNestedToolCalls(parentSchema, nested) ==
  LET child(i) == normalizeChild(nested.list[i],
                                 getSchemaForChildTool(nested.list[i].slug))
  IN  [threw |-> \E i \in 1..Len(nested.list) : child(i).threw,
       list |-> [i \in 1..Len(nested.list) |-> child(i).call]]

\* executeTool going on to the executor whatever normalizeMCPArguments did.
executeTool_DispatchAnyway(hasContext, tool, params, nested, executorOk) ==
  IF ~hasContext \/ ~tool.known
    THEN [NoTool EXCEPT !.threw = TRUE]
    ELSE [dispatch(tool, executorOk) EXCEPT
            !.parameters = tool.parameters, !.params = params, !.nested = nested,
            !.children = nested.list]

executeTool(hasContext, tool, params, nested, executorOk) ==
  IF ~hasContext \/ ~tool.known
    THEN [NoTool EXCEPT !.threw = TRUE]
    ELSE With(normalizeMCPArguments(Schema(tool.parameters), params),
              LAMBDA normalizedParams :
         With(IF normalizedParams.threw \/ getChildToolArrayKey(nested) = "none"
                THEN [threw |-> FALSE, list |-> <<>>]
                ELSE normalizeNestedToolCalls(tool.parameters, nested),
              LAMBDA children :
           LET failed  == normalizedParams.threw \/ children.threw
               outcome == IF failed THEN [NoTool EXCEPT !.payload = "error"]
                                    ELSE dispatch(tool, executorOk)
           IN  [outcome EXCEPT !.parameters = tool.parameters, !.params = params,
                               !.nested = nested,
                               !.children = IF failed THEN <<>> ELSE children.list]))

\* ------------------------------------------------------------- numbers
\* The numbers of playback and of the worklet are IEEE 754 doubles, and an element
\* of a Float32Array is a double rounded to 24 bits.  A number is NaN, an infinity,
\* or m * 2^e with its sign apart (k = "num"): m is a natural number, written as its
\* digits in base 2^15 with the lowest first and no zero on top (two digits multiply
\* without leaving 32 bits), and it is odd unless the number is 0, so that a number
\* is written in one way.  The sign of a zero is not kept: process() and
\* playAudioData never divide by a zero, and nothing else tells -0 from 0.
Base == 2 ^ 15

Infinity(neg) == [k |-> "inf", neg |-> neg, m |-> <<>>, e |-> 0]

RECURSIVE NTrim(_)
NTrim(a) == IF a # <<>> /\ a[Len(a)] = 0 THEN NTrim(SubSeq(a, 1, Len(a) - 1)) ELSE a

RECURSIVE NFromInt(_)
NFromInt(n) == IF n = 0 THEN <<>> ELSE <<n % Base>> \o NFromInt(n \div Base)

RECURSIVE NToInt(_)
NToInt(a) == IF a = <<>> THEN 0 ELSE a[1] + Base * NToInt(Tail(a))

\* The number of binary digits of a digit, and of a natural.
RECURSIVE Bits(_)
Bits(d) == IF d = 0 THEN 0 ELSE 1 + Bits(d \div 2)

NBitLen(a) == IF a = <<>> THEN 0 ELSE 15 * (Len(a) - 1) + Bits(a[Len(a)])

Digit(a, i) == IF i <= Len(a) THEN a[i] ELSE 0

\* -1, 0, 1 as a is less than, equal to, greater than b.
NCmp(a, b) ==
  IF Len(a) # Len(b) THEN (IF Len(a) < Len(b) THEN -1 ELSE 1)
  ELSE LET differ == {i \in 1..Len(a) : a[i] # b[i]}
       IN  IF differ = {} THEN 0
           ELSE LET top == CHOOSE i \in differ : \A j \in differ : j <= i
                IN  IF a[top] < b[top] THEN -1 ELSE 1

NAdd(a, b) ==
  LET n == Max(Len(a), Len(b))
      carry[i \in 0..n] ==
        IF i = 0 THEN 0 ELSE (Digit(a, i) + Digit(b, i) + carry[i - 1]) \div Base
  IN  NTrim([i \in 1..(n + 1) |-> (Digit(a, i) + Digit(b, i) + carry[i - 1]) % Base])

\* a - b for a >= b.
NSub(a, b) ==
  LET borrow[i \in 0..Len(a)] ==
        IF i = 0 THEN 0
        ELSE IF a[i] - Digit(b, i) - borrow[i - 1] < 0 THEN 1 ELSE 0
  IN  NTrim([i \in 1..Len(a) |-> (a[i] - Digit(b, i) - borrow[i - 1] + Base) % Base])

\* a * d for one digit d.
NMulSmall(a, d) ==
  LET carry[i \in 0..Len(a)] ==
        IF i = 0 THEN 0 ELSE (a[i] * d + carry[i - 1]) \div Base
  IN  NTrim([i \in 1..(Len(a) + 1) |-> (Digit(a, i) * d + carry[i - 1]) % Base])

NShiftDigits(a, q) == IF a = <<>> THEN <<>> ELSE [i \in 1..q |-> 0] \o a

NMul(a, b) ==
  LET sum[j \in 0..Len(b)] ==
        IF j = 0 THEN <<>>
        ELSE NAdd(sum[j - 1], NShiftDigits(NMulSmall(a, b[j]), j - 1))
  IN  sum[Len(b)]

\* a * 2^n, and the whole part of a / 2^n.
NShl(a, n) == IF n = 0 THEN a ELSE NShiftDigits(NMulSmall(a, 2 ^ (n % 15)), n \div 15)

NShr(a, n) ==
  IF n \div 15 >= Len(a) THEN <<>>
  ELSE LET t == SubSeq(a, (n \div 15) + 1, Len(a))
           p == 2 ^ (n % 15)
       IN  NTrim([i \in 1..Len(t) |-> (t[i] \div p) + (Digit(t, i + 1) % p) * (Base \div p)])

\* Binary digit n of a (the lowest is digit 0), and whether all below it are 0.
NBit(a, n) == (Digit(a, (n \div 15) + 1) \div (2 ^ (n % 15))) % 2

NLowZero(a, n) ==
  /\ \A i \in 1..Min(n \div 15, Len(a)) : a[i] = 0
  /\ Digit(a, (n \div 15) + 1) % (2 ^ (n % 15)) = 0

\* The number of zeros at the low end of a natural that is not 0.
RECURSIVE Tz(_)
Tz(d) == IF d % 2 = 1 THEN 0 ELSE 1 + Tz(d \div 2)

NTz(a) ==
  LET low == CHOOSE i \in 1..Len(a) : a[i] # 0 /\ \A j \in 1..(i - 1) : a[j] = 0
  IN  15 * (low - 1) + Tz(a[low])

\* The whole part of N / D (D not 0) and whether that is all of it: long division,
\* digit by digit from the top, the divisor scaled until its top digit is Base / 2 or
\* more, which puts the digit guessed from the top digits within 2 above the right one.
NDivMod(N, D) ==
  LET s  == 15 - Bits(D[Len(D)])
      Dn == NShl(D, s)
      Nn == NShl(N, s)
      n  == Len(Dn)
      step[j \in 0..Len(Nn)] ==
        IF j = 0 THEN [q |-> <<>>, r |-> <<>>]
        ELSE With(step[j - 1], LAMBDA prev :
             With(NTrim(<<Nn[Len(Nn) - j + 1]>> \o prev.r), LAMBDA R :
               LET guess == IF Len(R) < n THEN 0
                            ELSE Min(Base - 1, (Digit(R, n + 1) * Base + R[n]) \div Dn[n])
                   fits(q) == NCmp(NMulSmall(Dn, q), R) <= 0
               IN  With(IF fits(guess) THEN guess
                        ELSE IF fits(guess - 1) THEN guess - 1 ELSE guess - 2,
                        LAMBDA digit :
                          [q |-> <<digit>> \o prev.q,
                           r |-> NSub(R, NMulSmall(Dn, digit))])))
  IN  With(step[Len(Nn)], LAMBDA end : [q |-> NTrim(end.q), exact |-> end.r = <<>>])

\* The number m * 2^e, m of any parity.
FNum(neg, m, e) ==
  IF m = <<>> THEN Zero
  ELSE With(NTz(m), LAMBDA tz : [k |-> "num", neg |-> neg, m |-> NShr(m, tz), e |-> e + tz])

\* m * 2^e rounded to the nearest number of p binary digits that is a multiple of
\* 2^least, to the one with an even last digit when two are as near; an infinity
\* when that is 2^most or more.
FRound(neg, m, e, p, least, most) ==
  IF m = <<>> THEN Zero
  ELSE With(Max(0, Max(NBitLen(m) - p, least - e)), LAMBDA drop :
       With(IF drop = 0 THEN m
            ELSE IF /\ NBit(m, drop - 1) = 1
                    /\ (~NLowZero(m, drop - 1) \/ NBit(m, drop) = 1)
              THEN NAdd(NShr(m, drop), <<1>>)
            ELSE NShr(m, drop),
            LAMBDA kept :
              IF NBitLen(kept) + e + drop > most THEN Infinity(neg)
              ELSE FNum(neg, kept, e + drop)))

\* The double nearest to m * 2^e, and Math.fround: the float32 nearest to a double.
FDouble(neg, m, e) == FRound(neg, m, e, 53, -1074, 1024)

fround(x) == IF x.k # "num" THEN x ELSE FRound(x.neg, x.m, x.e, 24, -149, 128)

\* The double that is the integer n.
FFromInt(n) == FNum(n < 0, NFromInt(IF n < 0 THEN -n ELSE n), 0)

\* The integer that a double is, for one that is an integer.
FToInt(x) == (IF x.neg THEN -1 ELSE 1) * NToInt(NShl(x.m, x.e))

FNeg(x) == IF x.k = "nan" \/ x = Zero THEN x ELSE [x EXCEPT !.neg = ~@]

\* a + b, a - b, a * b, a / b of doubles.
FAdd(a, b) ==
  IF a.k = "nan" \/ b.k = "nan" THEN NaN
  ELSE IF a.k = "inf" THEN (IF b.k = "inf" /\ b.neg # a.neg THEN NaN ELSE a)
  ELSE IF b.k = "inf" THEN b
  ELSE IF a.m = <<>> THEN b
  ELSE IF b.m = <<>> THEN a
  ELSE With(Min(a.e, b.e), LAMBDA e :
       With(NShl(a.m, a.e - e), LAMBDA x :
       With(NShl(b.m, b.e - e), LAMBDA y :
         IF a.neg = b.neg THEN FDouble(a.neg, NAdd(x, y), e)
         ELSE With(NCmp(x, y), LAMBDA c :
                IF c = 0 THEN Zero
                ELSE IF c > 0 THEN FDouble(a.neg, NSub(x, y), e)
                ELSE FDouble(b.neg, NSub(y, x), e)))))

FSub(a, b) == FAdd(a, FNeg(b))

FMul(a, b) ==
  IF a.k = "nan" \/ b.k = "nan" THEN NaN
  ELSE IF a.k = "inf" \/ b.k = "inf"
    THEN (IF a = Zero \/ b = Zero THEN NaN ELSE Infinity(a.neg # b.neg))
  ELSE IF a.m = <<>> \/ b.m = <<>> THEN Zero
  ELSE FDouble(a.neg # b.neg, NMul(a.m, b.m), a.e + b.e)

\* The quotient is worked out to 55 binary digits or more, and a last digit 1 is put
\* after it when the division leaves a remainder, which rounds as the quotient does.
FDiv(a, b) ==
  IF a.k = "nan" \/ b.k = "nan" THEN NaN
  ELSE IF a.k = "inf" THEN (IF b.k = "inf" THEN NaN ELSE Infinity(a.neg # b.neg))
  ELSE IF b.k = "inf" THEN Zero
  ELSE IF b.m = <<>> THEN (IF a.m = <<>> THEN NaN ELSE Infinity(a.neg))
  ELSE IF a.m = <<>> THEN Zero
  ELSE IF b.m = <<1>> THEN FDouble(a.neg # b.neg, a.m, a.e - b.e)
  ELSE With(Max(0, 55 + NBitLen(b.m) - NBitLen(a.m)), LAMBDA scale :
       With(NDivMod(NShl(a.m, scale), b.m), LAMBDA d :
         IF d.exact THEN FDouble(a.neg # b.neg, d.q, a.e - b.e - scale)
         ELSE FDouble(a.neg # b.neg, NAdd(NShl(d.q, 1), <<1>>), a.e - b.e - scale - 1)))

\* Math.floor
floor(x) ==
  IF x.k # "num" \/ x.e >= 0 THEN x
  ELSE IF x.neg THEN FNum(TRUE, NAdd(NShr(x.m, -x.e), <<1>>), 0)
  ELSE FNum(FALSE, NShr(x.m, -x.e), 0)

\* a < b of doubles: false when either is NaN.
FLess(a, b) ==
  IF a.k = "nan" \/ b.k = "nan" THEN FALSE
  ELSE IF a.k = "inf" THEN a.neg /\ ~(b.k = "inf" /\ b.neg)
  ELSE IF b.k = "inf" THEN ~b.neg
  ELSE IF a.neg # b.neg THEN a.neg
  ELSE IF a.m = <<>> \/ b.m = <<>> THEN (a.m = <<>> /\ b.m # <<>>)
  ELSE With(NBitLen(a.m) + a.e, LAMBDA la :
       With(NBitLen(b.m) + b.e, LAMBDA lb :
         IF la # lb THEN (IF a.neg THEN la > lb ELSE la < lb)
         ELSE With(NCmp(NShl(a.m, a.e - Min(a.e, b.e)), NShl(b.m, b.e - Min(a.e, b.e))),
                   LAMBDA c : IF a.neg THEN c > 0 ELSE c < 0)))

\* Math.min and Math.max of two numbers: NaN when either is.
MathMin(a, b) == IF a.k = "nan" \/ b.k = "nan" THEN NaN ELSE IF FLess(b, a) THEN b ELSE a
MathMax(a, b) == IF a.k = "nan" \/ b.k = "nan" THEN NaN ELSE IF FLess(a, b) THEN b ELSE a

\* --------------------------------------------- PCM16 encoding and decoding
\* The store into an Int16Array: NaN and the infinities become 0, any other number
\* is truncated toward 0 and wrapped to 16 bits.
ToInt16(f) ==
  IF f.k # "num" \/ f.e >= 16 THEN 0
  ELSE With(IF f.e >= 0 THEN NShl(f.m, f.e) ELSE NShr(f.m, -f.e), LAMBDA whole :
         LET low     == Digit(whole, 1) + (Digit(whole, 2) % 2) * Base
             wrapped == IF f.neg THEN (65536 - low) % 65536 ELSE low
         IN  IF wrapped >= 32768 THEN wrapped - 65536 ELSE wrapped)

\* playAudioData's decoding of one sample: float32Array[i] = int16Array[i] / 32768.0.
decodeSample(x) == fround(FDiv(FFromInt(x), FFromInt(32768)))

\* Math.max(-1, Math.min(1, s)); with NaN both give NaN.
clamp(s) == MathMax(FFromInt(-1), MathMin(FFromInt(1), s))

\* The encoding with one scale, 0x8000, for both signs.
encodeSample_Symmetric(f) == ToInt16(FMul(clamp(f), FFromInt(32768)))

\* The worklet's encoding of one sample: clamped, negatives times 0x8000, the others
\* times 0x7fff, stored into an Int16Array.
encodeSample(f) ==
  With(clamp(f), LAMBDA s :
    ToInt16(IF FLess(s, Zero) THEN FMul(s, FFromInt(32768)) ELSE FMul(s, FFromInt(32767))))

\* ------------------------------------------------ PCMDownsamplerProcessor
\* The constructor: sampleRate is the rate of the AudioContext, targetSampleRate the
\* processorOptions' (never 0: 24000 stands in for it), and the ratio of the two is
\* worked out once.  signal is what the processor is going to be fed.
PCMDownsamplerProcessor(sampleRate, target, signal) ==
  [sampleRate |-> sampleRate, targetSampleRate |-> target,
   sampleRateRatio |-> FDiv(FFromInt(sampleRate), FFromInt(target)),
   phase |-> Zero, signal |-> signal, fed |-> 0, output |-> <<>>, posted |-> <<>>,
   overrun |-> FALSE]

\* input[index] of a block of floats: undefined outside the block, which arithmetic
\* turns into NaN.  index counts from 0.
at(input, index) == IF index >= 0 /\ index < Len(input) THEN input[index + 1] ELSE NaN

\* The resampling of process(inputs) for one block that is not empty: the output
\* block (a Float32Array), the phase carried to the next call, and whether an index
\* outside the block was read.  At ratio 1 the block goes through as it is.
resample(w, input) ==
  IF w.sampleRateRatio = FFromInt(1)
    THEN [output |-> input, phase |-> w.phase, overrun |-> FALSE]
    ELSE With(FAdd(FFromInt(Len(input)), w.phase), LAMBDA end :
         With(FToInt(floor(FDiv(end, w.sampleRateRatio))), LAMBDA outLength :
           LET sample(i) ==
                 With(FAdd(FMul(FFromInt(i), w.sampleRateRatio), w.phase),
                      LAMBDA sourcePos :
                 With(floor(sourcePos), LAMBDA whole :
                 With(FToInt(whole), LAMBDA index :
                   LET frac      == FSub(sourcePos, whole)
                       nextIndex == Min(index + 1, Len(input) - 1)
                   IN  [index |-> index,
                        value |-> fround(FAdd(FMul(at(input, index),
                                                   FSub(FFromInt(1), frac)),
                                              FMul(at(input, nextIndex), frac)))])))
           IN  With([i \in 1..outLength |-> sample(i - 1)], LAMBDA samples :
                 [output  |-> [i \in 1..outLength |-> samples[i].value],
                  overrun |-> \E i \in 1..outLength :
                                samples[i].index \notin 0..(Len(input) - 1),
                  phase   |-> FSub(end, FMul(FFromInt(outLength),
                                             w.sampleRateRatio))])))

\* process(inputs) on the processor w fed the next n samples of its signal: nothing is
\* done for an empty block; else the block is resampled, encoded and posted.
process(w, n) ==
  IF n = 0 THEN w
  ELSE With(resample(w, SubSeq(w.signal, w.fed + 1, w.fed + n)), LAMBDA r :
         [w EXCEPT !.fed = w.fed + n, !.phase = r.phase,
                   !.output = w.output \o r.output,
                   !.posted = w.posted \o [i \in 1..Len(r.output) |->
                                             encodeSample(r.output[i])],
                   !.overrun = w.overrun \/ r.overrun])

\* ------------------------------------------------ AudioManager, playback
\* processAudioQueue: start the next queued buffer as the current source, or go idle.
\* createBufferSource(), connect() and start() of a source just made do not throw on
\* a context that is there (Web Audio makes and starts nodes on a closed context
\* too), so the catch is not followed.
processAudioQueue(R) ==
  IF R.audioQueue = 0 \/ ~R.audioContext
    THEN [R EXCEPT !.isPlayingAudio = FALSE, !.currentSource = FALSE]
    ELSE [R EXCEPT !.isPlayingAudio = TRUE, !.audioQueue = R.audioQueue - 1,
                   !.currentSource = TRUE,
                   !.playing = R.playing + 1]

\* playAudioData(chunk): without a usable AudioContext the chunk is dropped, and so is
\* a chunk that cannot be decoded (atob, the Int16Array view or createBuffer throws
\* into the catch); otherwise it is queued and started at once when nothing is playing.
\* The promise it returns is resolved at once in the first two cases and handed to
\* the queue, as the item's resolve, in the third.
playAudioData(R, decodable) ==
  IF ~R.audioContext \/ ~decodable
    THEN R
    ELSE LET Q == [R EXCEPT !.audioQueue = R.audioQueue + 1,
                            !.unresolved = R.unresolved + 1]
         IN  IF ~Q.isPlayingAudio THEN processAudioQueue(Q) ELSE Q

\* stopPlayback: drop the queue and stop the current source, if there is one.  The
\* stopped source still has its onended handler and its ended event is yet to fire.
stopPlayback(R) ==
  LET Q == [R EXCEPT !.audioQueue = 0, !.isPlayingAudio = FALSE]
  IN  IF Q.currentSource
        THEN [Q EXCEPT !.playing = Max(0, Q.playing - 1),
                       !.stopping = Q.stopping + 1,
                       !.currentSource = FALSE]
        ELSE Q

\* source.onended, the handler every started source carries, whichever source fires it.
\* It calls the resolve of the item the source was started for.
sourceEnded(R) ==
  processAudioQueue([R EXCEPT !.currentSource = FALSE,
                              !.unresolved = R.unresolved - 1])

\* --------------------------------------- AudioManager, initialization
\* performCleanup leaving isClosing set when it is done.
performCleanup_StaysClosing(R) ==
  IF R.isClosing
    THEN R
    ELSE [R EXCEPT !.audioQueue = 0, !.isPlayingAudio = FALSE, !.stream = FALSE,
                   !.microphone = FALSE, !.workletNode = FALSE, !.connected = FALSE,
                   !.audioContext = FALSE, !.playing = 0, !.workletReady = FALSE,
                   !.registered = FALSE, !.staleLoads = R.loads,
                   !.isInitialized = FALSE,
                   !.isClosing = TRUE, !.initializationPromise = FALSE]

\* performCleanup: everything released; synchronous, so isClosing is set and reset
\* within the one call.
performCleanup(R) ==
  IF R.isClosing
    THEN R
    ELSE [R EXCEPT !.audioQueue = 0, !.isPlayingAudio = FALSE, !.stream = FALSE,
                   !.microphone = FALSE, !.workletNode = FALSE, !.connected = FALSE,
                   !.audioContext = FALSE, !.playing = 0, !.workletReady = FALSE,
                   !.registered = FALSE, !.staleLoads = R.loads,
                   !.isInitialized = FALSE,
                   !.isClosing = FALSE, !.initializationPromise = FALSE]

\* stopCapture: the sink is forgotten and the worklet node, if any, disconnected.
stopCapture(R) ==
  [R EXCEPT !.onAudioDataCallback = FALSE, !.workletNode = FALSE, !.connected = FALSE]

\* The end of startCapture: the worklet node is made on the AudioContext and the
\* microphone source connected to it.  Without an AudioContext the constructor
\* throws, and so it does on an AudioContext the module was not added to (the
\* processor name is registered per context); without a microphone source the
\* connect throws, the node staying.
attachWorklet(R) ==
  IF ~R.audioContext THEN [R EXCEPT !.last.error = "TypeError"]
  ELSE IF ~R.registered THEN [R EXCEPT !.last.error = "InvalidStateError"]
  ELSE IF ~R.microphone
    THEN [R EXCEPT !.workletNode = TRUE, !.connected = FALSE, !.last.error = "TypeError"]
  ELSE [R EXCEPT !.workletNode = TRUE, !.connected = TRUE, !.last.started = TRUE]

\* startCapture registering the sink whatever the state of the device.
startCapture_Unchecked(R) ==
  LET S == [R EXCEPT !.onAudioDataCallback = TRUE]
  IN  IF ~S.workletReady
        THEN [S EXCEPT !.loads = S.loads + 1, !.last.requested = TRUE]
        ELSE attachWorklet(S)

\* startCapture(onAudioData) up to its await: the two not-initialized checks, the
\* sink registered, and then either the worklet module requested or, when it is
\* loaded already, the end of the function at once.
startCapture(R) ==
  IF ~R.audioContext \/ ~R.stream
    THEN [R EXCEPT !.last.error = "NotInitialized"]
  ELSE IF ~R.microphone
    THEN [R EXCEPT !.last.error = "MicrophoneUnavailable"]
  ELSE LET S == [R EXCEPT !.onAudioDataCallback = TRUE]
       IN  IF ~S.workletReady
             THEN [S EXCEPT !.loads = S.loads + 1, !.last.requested = TRUE]
             ELSE attachWorklet(S)

\* audioWorklet.addModule settles for one startCapture: rejected, startCapture throws
\* the error; resolved, workletReady is set and the function goes on to its end.  The
\* module is registered on the AudioContext addModule was called on, which is the one
\* held unless the call is a stale one.
moduleSettled(R, ok, stale) ==
  LET S == [R EXCEPT !.loads = R.loads - 1,
                     !.staleLoads = IF stale THEN R.staleLoads - 1 ELSE R.staleLoads]
  IN  IF ~ok THEN [S EXCEPT !.last.error = "ModuleLoad"]
      ELSE attachWorklet([S EXCEPT !.workletReady = TRUE,
                                   !.registered = S.registered \/ ~stale])

\* close(force): refused during an initialization unless forced; otherwise stopCapture,
\* stopPlayback, performCleanup.
closeAudio(R, force) ==
  IF R.isInitializing /\ ~force THEN R ELSE performCleanup(stopPlayback(stopCapture(R)))

\* initialize() up to its await: join the initialization in flight, return when
\* initialized, throw when closing, or start performInitialization, which creates the
\* AudioContext and asks getUserMedia for the microphone.
initialize(R) ==
  IF R.isInitializing /\ R.initializationPromise THEN [R EXCEPT !.last.joined = TRUE]
  ELSE IF R.isInitialized THEN R
  ELSE IF R.isClosing THEN [R EXCEPT !.last.threw = TRUE]
  ELSE [R EXCEPT !.isInitializing = TRUE, !.initializationPromise = TRUE,
                 !.audioContext = TRUE, !.inits = R.inits + 1,
                 !.registered = FALSE, !.staleLoads = R.loads,
                 !.last.requested = TRUE]

\* getUserMedia settles for one performInitialization: with the stream (ok) the
\* microphone source is made unless the manager is closing or has lost its
\* AudioContext; every failure goes through the catch (performCleanup unless closing)
\* and the finally; then the finally of the initialize() that started it.  The source
\* made replaces the one in this.microphone, if there was one, and is connected to the
\* analyser only: a worklet node that is there is still fed by the source replaced.
mediaSettled(R, ok) ==
  LET S      == [R EXCEPT !.inits = R.inits - 1, !.stream = IF ok THEN TRUE ELSE R.stream]
      failed == ~ok \/ S.isClosing \/ ~S.audioContext
      T      == IF ~failed THEN [S EXCEPT !.microphone = TRUE, !.connected = FALSE,
                                          !.isInitialized = TRUE]
                ELSE IF ~S.isClosing THEN performCleanup(S)
                ELSE S
  IN  [T EXCEPT !.isInitializing = FALSE, !.initializationPromise = FALSE,
                !.last.threw = failed]

\* stopAudioCapture of useVoiceEmbed: with an AudioManager in audioManagerRef,
\* stopCapture(), stopPlayback(), close(); then setIsRecording(false).
stopAudioCapture(R) ==
  [(IF R.hook.manager THEN closeAudio(stopPlayback(stopCapture(R)), FALSE) ELSE R)
     EXCEPT !.hook.isRecording = FALSE]

\* ----------------------------------------------------- RealtimeAPIClient
isConnected(R) == R.ws # 0 /\ R.sock[R.ws].st = "open"

\* What the transmission of message m does to the socket it is written to.
Transmit(s, m) ==
  CASE m = "session.update" -> [s EXCEPT !.updates = s.updates + 1]
    [] m = "input_audio_buffer.append" ->
         [s EXCEPT !.appendFirst = s.appendFirst \/ s.updates = 0]
    [] m = "input_audio_buffer.clear" ->
         [s EXCEPT !.clears = s.clears + 1]
    [] OTHER -> s

\* The utterance after an input_audio_buffer.clear went out, and after a speech_started.
AfterClear(u) ==
  CASE u = "started"   -> "cleared"
    [] u = "restarted" -> "recleared"
    [] OTHER           -> u

AfterSpeechStarted(u) ==
  CASE u = "none"    -> "started"
    [] u = "cleared" -> "restarted"
    [] OTHER         -> u

\* send: write to the socket held, when it is open; otherwise warn and drop.
send(R, m) ==
  IF R.ws # 0 /\ R.sock[R.ws].st = "open"
    THEN [R EXCEPT !.sock[R.ws] = Transmit(R.sock[R.ws], m),
                   !.last.sent = Append(R.last.sent, m),
                   !.cancelInFlight = R.cancelInFlight \/ m = "response.cancel",
                   !.runClears = IF m = "input_audio_buffer.clear"
                                   THEN R.runClears + 1 ELSE R.runClears,
                   !.utterance = IF m = "input_audio_buffer.clear"
                                   THEN AfterClear(R.utterance) ELSE R.utterance,
                   !.appended = IF m \in {"input_audio_buffer.clear",
                                          "input_audio_buffer.commit"}
                                  THEN 0 ELSE R.appended]
    ELSE R

\* sendFunctionCallOutput with the response.create left out.
sendFunctionCallOutput_OutputOnly(R, callId) ==
  LET A == send(R, "conversation.item.create")
  IN  [A EXCEPT !.calls[callId].outputs =
         IF Len(A.last.sent) > Len(R.last.sent) THEN @ + 1 ELSE @]

\* sendFunctionCallOutput(callId, output): the function_call_output item, then
\* response.create.  calls[callId].outputs counts the items that went out.
sendFunctionCallOutput(R, callId) ==
  LET A == send(R, "conversation.item.create")
      B == [A EXCEPT !.calls[callId].outputs =
              IF Len(A.last.sent) > Len(R.last.sent) THEN @ + 1 ELSE @]
  IN  send(B, "response.create")

\* ------------------------------------------- useVoiceEmbed event handlers
\* The handler after its await: executeTool has returned or thrown, and either way the
\* outcome is handed to sendFunctionCallOutput.
onToolSettled(R, callId, outcome) ==
  LET S == sendFunctionCallOutput([R EXCEPT !.last.tool = outcome], callId)
  IN  [S EXCEPT !.calls[callId].st = "settled", !.last.settled = callId,
                !.last.postOpen = isConnected(S)]

\* The function_call handler as far as it runs in the task of the message: without a
\* tool name it returns; without a session id it answers with an error at once; for a
\* name that is not registered executeTool throws before its first await, so that the
\* catch answers before any other task runs (last.tool is what executeTool did, worked
\* out as the message came in); for a registered tool executeTool is under way,
\* awaiting the executor and the insert of the execution record.
onFunctionCall(R) ==
  LET call == R.last.call
  IN  IF ~call.named THEN R
      ELSE IF ~call.session
        THEN LET S == sendFunctionCallOutput(R, call.id)
             IN  [S EXCEPT !.calls[call.id].st = "settled", !.last.settled = call.id,
                           !.last.postOpen = isConnected(S)]
      ELSE IF ~call.known
        THEN onToolSettled(R, call.id, R.last.tool)
      ELSE [R EXCEPT !.calls[call.id].st = "running"]

\* The transcript handlers attachRealtimeHandlers registers.  An event is its role,
\* its itemId ("none" when the upstream sent none) and its delta or transcript (the
\* empty text when it is missing).
activeId(t, role) == IF role = "user" THEN t.activeUserId ELSE t.activeAssistantId

setActiveId(t, role, id) ==
  IF role = "user" THEN [t EXCEPT !.activeUserId = id]
                   ELSE [t EXCEPT !.activeAssistantId = id]

\* event.itemId || activeId || fallbackId
eventItemId(t, event) ==
  IF event.itemId # "none" THEN event.itemId
  ELSE IF activeId(t, event.role) # "none" THEN activeId(t, event.role)
  ELSE fallbackId(event.role)

onTranscriptDelta(R, event) ==
  LET t == R.transcripts
      role == event.role
      itemId == eventItemId(t, event)
      old == t[role][itemId]
      text == (IF old.has THEN old.text ELSE <<>>) \o event.text
  IN  [R EXCEPT !.transcripts =
        [setActiveId(t, role, itemId) EXCEPT ![role][itemId] = [has |-> TRUE, text |-> text]]]

\* [...prev, nextMessage].slice(-30)
KeptMessages == 30
appendMessage(prev, nextMessage) ==
  LET all == Append(prev, nextMessage)
  IN  SubSeq(all, Max(1, Len(all) - KeptMessages + 1), Len(all))

onTranscriptDone_KeepsBlank(R, event) ==
  LET t == R.transcripts
      role == event.role
      itemId == eventItemId(t, event)
      buffer == t[role][itemId]
      transcriptText == IF event.text # <<>> THEN event.text
                        ELSE IF buffer.has THEN buffer.text ELSE <<>>
      deleted == [t EXCEPT ![role][itemId] = NoBuffer]
      cleared == IF activeId(t, role) = itemId THEN setActiveId(deleted, role, "none")
                                               ELSE deleted
  IN  IF transcriptText = <<>>
        THEN [R EXCEPT !.transcripts = cleared]
        ELSE [R EXCEPT !.transcripts = cleared,
                       !.messages = appendMessage(R.messages,
                                      [role |-> role, content |-> transcriptText])]

onTranscriptDone(R, event) ==
  LET t == R.transcripts
      role == event.role
      itemId == eventItemId(t, event)
      buffer == t[role][itemId]
      transcriptText == IF event.text # <<>> THEN event.text
                        ELSE IF buffer.has THEN buffer.text ELSE <<>>
      deleted == [t EXCEPT ![role][itemId] = NoBuffer]
      cleared == IF activeId(t, role) = itemId THEN setActiveId(deleted, role, "none")
                                               ELSE deleted
  IN  IF trim(transcriptText) = <<>>
        THEN [R EXCEPT !.transcripts = cleared]
        ELSE [R EXCEPT !.transcripts = cleared,
                       !.messages = appendMessage(R.messages,
                                      [role |-> role, content |-> transcriptText])]

onTranscriptReset(R, role) ==
  [R EXCEPT !.transcripts =
    setActiveId([R.transcripts EXCEPT ![role] = NoBuffers(role)], role, "none")]

resetTranscripts(R) == [R EXCEPT !.transcripts = NoTranscripts]

resetConversation(R) == [resetTranscripts(R) EXCEPT !.messages = <<>>]

\* The handlers attachRealtimeHandlers registers, as far as they touch the audio,
\* the tools and the transcripts.
hookHandler(R, ev) ==
  CASE ev = "disconnected"          -> stopAudioCapture(R)
    [] ev = "transcript.reset"      -> onTranscriptReset(R, "user")
    [] ev = "transcript.delta"      -> onTranscriptDelta(R, R.last.event)
    [] ev = "transcript.done"       -> onTranscriptDone(R, R.last.event)
    [] ev = "agent_state.listening" -> stopPlayback(R)
    [] ev = "audio.delta"           -> playAudioData(R, R.last.decodable)
    [] ev = "function_call"         -> onFunctionCall(R)
    [] OTHER                        -> R

\* emit: call every handler registered for the event.
emit(R, ev) ==
  LET E == [R EXCEPT !.last.emitted = Append(R.last.emitted, ev)]
  IN  IF E.eventHandlers THEN hookHandler(E, ev) ELSE E

\* setAgentState(state, reason): hasReason is whether a reason was given.
setAgentState(R, state, hasReason) ==
  IF R.agentState = state /\ ~hasReason
    THEN R
    ELSE emit([R EXCEPT !.agentState = state], "agent_state." \o state)

markResponseCreated(R) ==
  [R EXCEPT !.activeResponseCount = Max(0, R.activeResponseCount) + 1]

\* markResponseFinished that leaves cancelPending alone.
markResponseFinished_KeepsPending(R) ==
  [R EXCEPT !.activeResponseCount = Max(0, R.activeResponseCount - 1),
            !.cancelInFlight = FALSE]

markResponseFinished(R) ==
  [R EXCEPT !.activeResponseCount = Max(0, R.activeResponseCount - 1),
            !.cancelPending = FALSE,
            !.cancelInFlight = FALSE]

hasActiveResponse(R) == R.activeResponseCount > 0

\* sendSessionUpdate without its sessionUpdateSent check.
sendSessionUpdate_Unguarded(R) ==
  [send(R, "session.update") EXCEPT !.sessionUpdateSent = TRUE]

sendSessionUpdate(R) ==
  IF R.sessionUpdateSent
    THEN R
    ELSE [send(R, "session.update") EXCEPT !.sessionUpdateSent = TRUE]

updateSessionConfig(R) ==
  IF isConnected(R) THEN sendSessionUpdate(R) ELSE R

\* cancelResponse without its cancelPending check.
cancelResponse_NoPendingCheck(R, suppressState) ==
  IF ~hasActiveResponse(R) THEN R
  ELSE LET A == [R EXCEPT !.hasBufferedAudio = FALSE, !.bufferedSamples = 0,
                          !.hasReceivedAudio = FALSE, !.pendingClear = TRUE,
                          !.cancelPending = TRUE, !.runClears = 0,
                          !.appended = 0]
           B == send(A, "response.cancel")
       IN  IF ~suppressState THEN setAgentState(B, "interrupted", FALSE) ELSE B

\* cancelResponse without its hasActiveResponse check.
cancelResponse_NoActiveCheck(R, suppressState) ==
  IF R.cancelPending THEN R
  ELSE LET A == [R EXCEPT !.hasBufferedAudio = FALSE, !.bufferedSamples = 0,
                          !.hasReceivedAudio = FALSE, !.pendingClear = TRUE,
                          !.cancelPending = TRUE, !.runClears = 0,
                          !.appended = 0]
           B == send(A, "response.cancel")
       IN  IF ~suppressState THEN setAgentState(B, "interrupted", FALSE) ELSE B

cancelResponse(R, suppressState) ==
  IF ~hasActiveResponse(R) THEN R
  ELSE IF R.cancelPending THEN R
  ELSE LET A == [R EXCEPT !.hasBufferedAudio = FALSE, !.bufferedSamples = 0,
                          !.hasReceivedAudio = FALSE, !.pendingClear = TRUE,
                          !.cancelPending = TRUE, !.runClears = 0,
                          !.appended = 0]
           B == send(A, "response.cancel")
       IN  IF ~suppressState THEN setAgentState(B, "interrupted", FALSE) ELSE B

sendAudio(R, n) ==
  IF ~(R.ws # 0 /\ R.sock[R.ws].st = "open") THEN R
  ELSE LET A == IF R.pendingClear
                  THEN send([R EXCEPT !.hasBufferedAudio = FALSE,
                                      !.bufferedSamples = 0,
                                      !.hasReceivedAudio = FALSE,
                                      !.pendingClear = FALSE],
                            "input_audio_buffer.clear")
                  ELSE R
       IN  send([A EXCEPT !.hasBufferedAudio = TRUE,
                          !.bufferedSamples = A.bufferedSamples + n,
                          !.hasReceivedAudio = TRUE,
                          !.appended = A.appended + n],
                "input_audio_buffer.append")

\* commitAudio without its test of bufferedSamples.
commitAudio_NoThreshold(R) ==
  IF ~R.hasBufferedAudio \/ ~R.hasReceivedAudio
    THEN R
    ELSE [send(R, "input_audio_buffer.commit") EXCEPT
            !.hasBufferedAudio = FALSE, !.bufferedSamples = 0,
            !.hasReceivedAudio = FALSE]

commitAudio(R) ==
  IF ~R.hasBufferedAudio \/ R.bufferedSamples < MinCommitSamples \/ ~R.hasReceivedAudio
    THEN R
    ELSE [send(R, "input_audio_buffer.commit") EXCEPT
            !.hasBufferedAudio = FALSE, !.bufferedSamples = 0,
            !.hasReceivedAudio = FALSE]

clearAudioBuffer(R) ==
  LET A == send([R EXCEPT !.hasBufferedAudio = FALSE, !.bufferedSamples = 0,
                         !.hasReceivedAudio = FALSE, !.pendingClear = FALSE,
                         !.runClears = 0],
                "input_audio_buffer.clear")
  IN  A


\* The slot a new WebSocket object takes: the first one whose socket is CLOSED and
\* which no other client still holds.
IsFree(R, k) == R.sock[k].st = "closed" /\ \A i \in Formers : R.formers[i].ws # k
HasFreeSlot(R) == \E k \in Slots : IsFree(R, k)
FreeSlot(R) ==
  CHOOSE k \in Slots :
    /\ IsFree(R, k)
    /\ \A j \in Slots : j < k => ~IsFree(R, j)

\* connect(): reset the bookkeeping, then create the socket and bind its callbacks.
\* Without an API key the call throws after the reset.
connect(R) ==
  LET A == [R EXCEPT !.intentionalClose = FALSE, !.sessionUpdateSent = FALSE,
                     !.pendingClear = TRUE, !.hasReceivedAudio = FALSE,
                     !.hasBufferedAudio = FALSE, !.bufferedSamples = 0,
                     !.activeResponseCount = 0, !.cancelPending = FALSE,
                     !.cancelInFlight = FALSE, !.runClears = 0,
                     !.utterance = "none"]
  IN  IF ~A.hasApiKey
        THEN A
        ELSE [A EXCEPT !.ws = FreeSlot(A), !.sock[FreeSlot(A)] = NewSocket]

reconnect(R) ==
  IF R.ws # 0 /\ R.sock[R.ws].st \in {"open", "connecting"}
    THEN R
    ELSE connect([R EXCEPT !.intentionalClose = FALSE, !.sessionUpdateSent = FALSE,
                           !.pendingClear = TRUE, !.activeResponseCount = 0,
                           !.cancelPending = FALSE])

\* WebSocket.close(): an open socket starts the closing handshake; one still
\* connecting is failed, which delivers an error event before the close event.
CloseSocket(s) ==
  CASE s.st = "open"       -> [s EXCEPT !.st = "closing"]
    [] s.st = "connecting" -> [s EXCEPT !.st = "failing"]
    [] OTHER               -> s

disconnect(R) ==
  LET A == [R EXCEPT !.intentionalClose = TRUE, !.sessionUpdateSent = FALSE,
                     !.pendingClear = TRUE, !.hasReceivedAudio = FALSE,
                     !.hasBufferedAudio = FALSE, !.bufferedSamples = 0,
                     !.activeResponseCount = 0, !.cancelPending = FALSE,
                     !.runClears = 0, !.utterance = "none"]
      B == IF A.ws # 0
             THEN [A EXCEPT !.sock[A.ws] = CloseSocket(A.sock[A.ws]), !.ws = 0]
             ELSE A
  IN  [B EXCEPT !.eventHandlers = FALSE, !.agentState = "idle"]

\* attemptReconnect with a delay that grows by one second per attempt.
attemptReconnect_Linear(R) ==
  IF R.reconnectAttempts >= maxReconnectAttempts
    THEN R
    ELSE [R EXCEPT !.reconnectAttempts = R.reconnectAttempts + 1,
                   !.timers = R.timers + 1,
                   !.last.scheduled = TRUE,
                   !.last.delay = reconnectDelay * (R.reconnectAttempts + 1)]

\* The delay is computed from the counter after the increment.
attemptReconnect(R) ==
  IF R.reconnectAttempts >= maxReconnectAttempts
    THEN R
    ELSE [R EXCEPT !.reconnectAttempts = R.reconnectAttempts + 1,
                   !.timers = R.timers + 1,
                   !.last.scheduled = TRUE,
                   !.last.delay = reconnectDelay * 2 ^ ((R.reconnectAttempts + 1) - 1)]

\* ws.onopen
onopen(R, k) ==
  LET A == emit([R EXCEPT !.reconnectAttempts = 0], "connected")
      B == sendSessionUpdate(A)
  IN  [B EXCEPT !.sock[k].promise = "resolved"]

\* ws.onerror: reject() settles the promise only when it is still pending.
onerror(R, k) ==
  LET A == emit(R, "error")
  IN  [A EXCEPT !.sock[k].promise =
         IF A.sock[k].promise = "pending" THEN "rejected" ELSE A.sock[k].promise]

\* ws.onclose
onclose(R) ==
  LET A == emit(R, "disconnected")
      B == setAgentState(A, "idle", TRUE)
      shouldRetry == ~B.intentionalClose /\ B.reconnectAttempts < maxReconnectAttempts
  IN  IF shouldRetry THEN attemptReconnect(B) ELSE B

\* The test of the speech_started case with allowInterruptions left out.
interrupts_IgnoringConfig(R) == R.agentState = "speaking"

\* The test of the speech_started case: the user barges in on the agent's speech.
interrupts(R) == R.agentState = "speaking" /\ R.allowInterruptions

\* The error case taking the session for lost: the agent goes idle.
handleError_GoingIdle(R, m) ==
  IF m = "error.none"
    THEN [R EXCEPT !.last.threw = TRUE]
    ELSE setAgentState(emit(R, "error"), "idle", FALSE)

\* The error case of handleServerMessage.  The text of the event is
\* message.error.message, or the JSON of message.error when that is missing or empty;
\* reading .message of a missing message.error throws before anything is emitted.
handleError(R, m) ==
  CASE m = "error.none" -> [R EXCEPT !.last.threw = TRUE]
    [] m = "error.bare" -> emit([R EXCEPT !.last.error = "json"], "error")
    [] OTHER            -> emit([R EXCEPT !.last.error = "message"], "error")

\* handleServerMessage, for the message types that change the client's state.
handleServerMessage(R, m) ==
  CASE m = "input_audio_buffer.speech_started" ->
         LET A == [R EXCEPT !.bufferedSamples = 0, !.hasBufferedAudio = FALSE,
                            !.hasReceivedAudio = FALSE, !.pendingClear = TRUE,
                            !.runClears = 0, !.appended = 0,
                            !.utterance = AfterSpeechStarted(R.utterance)]
             B == IF interrupts(A)
                    THEN emit(cancelResponse(A, FALSE), "interruption")
                    ELSE A
             C == emit(B, "transcript.reset")
         IN  setAgentState(C, "listening", FALSE)
    [] m \in {"transcript.delta", "transcript.done"} -> emit(R, m)
    [] m = "input_audio_buffer.speech_stopped" ->
         setAgentState([R EXCEPT !.pendingClear = TRUE, !.hasBufferedAudio = FALSE,
                                 !.hasReceivedAudio = FALSE, !.bufferedSamples = 0,
                                 !.runClears = 0, !.appended = 0,
                                 !.utterance = "none"],
                       "thinking", FALSE)
    [] m = "input_audio_buffer.cleared" ->
         [R EXCEPT !.hasBufferedAudio = FALSE, !.hasReceivedAudio = FALSE,
                   !.bufferedSamples = 0, !.pendingClear = FALSE]
    [] m = "response.created" ->
         emit(setAgentState(markResponseCreated(R), "thinking", FALSE),
              "response.created")
    [] m = "response.audio.delta" ->
         emit(setAgentState(R, "speaking", FALSE), "audio.delta")
    [] m = "response.canceled" ->
         LET A == emit(setAgentState(markResponseFinished(R), "interrupted", FALSE),
                       "interruption")
         IN  [A EXCEPT !.hasBufferedAudio = FALSE, !.bufferedSamples = 0]
    [] m = "response.done" ->
         emit(setAgentState(markResponseFinished(R), "idle", FALSE), "response.done")
    [] m = "response.function_call_arguments.done" ->
         emit(R, "function_call")
    [] m \in {"error", "error.bare", "error.none"} -> handleError(R, m)
    [] OTHER -> R

\* ws.onmessage on the frames that are not what the protocol promises: JSON.parse
\* throws on garbage, message.type throws on a parsed null, and whatever
\* handleServerMessage throws is caught and logged with them.
onmessage_Rethrowing(R, frame) ==
  IF frame \in {"garbage", "null"}
    THEN [R EXCEPT !.last.threw = TRUE]
    ELSE handleServerMessage(R, frame)

onmessage(R, frame) ==
  IF frame \in {"garbage", "null"}
    THEN [R EXCEPT !.last.caught = TRUE]
    ELSE LET A == handleServerMessage(R, frame)
         IN  [A EXCEPT !.last.threw = FALSE, !.last.caught = A.last.threw]


\* ---------------------------------------------------------------- Init
\* The client as its constructor leaves it, with the handlers of useVoiceEmbed
\* attached (attachRealtimeHandlers runs before the first connect()).
\* The state after new RealtimeAPIClient(config) and new AudioManager().
\* ------------------------------------------------------------ useVoiceEmbed
\* In what follows r is the place in hook.runs of the beginCapture() that goes on.
\* disconnectRealtime
disconnectRealtime(R) ==
  IF R.hook.client THEN [disconnect(R) EXCEPT !.hook.client = FALSE] ELSE R

\* The catch of startRecording: beginCapture() threw.
startFailed(R, r) ==
  [disconnectRealtime(stopAudioCapture([R EXCEPT !.hook.intent = FALSE]))
     EXCEPT !.hook.runs[r].at = "failed"]

\* beginCapture from `await startCapture(sink)` on: R is the state startCapture, or
\* the loading of its worklet module, has left.
captureStarted(R, r) ==
  IF R.last.error # "none" THEN startFailed(R, r)
  ELSE IF R.last.requested
    THEN [R EXCEPT !.hook.runs[r].at = "startCapture", !.hook.runs[r].load = R.loads]
  ELSE [R EXCEPT !.hook.runs[r].at = "done", !.hook.isRecording = TRUE]

\* beginCapture once initialize() has resolved: startCapture(sink) is called.
initialized(R, r) ==
  captureStarted(startCapture([R EXCEPT !.last.requested = FALSE,
                                        !.last.error = "none"]), r)

\* beginCapture once the session is there: the test of the two refs, then
\* initialize(), which throws, is waited for, or returns at once.  The initialization
\* waited for is the one under way, the last that was started.
sessionReady(R, r) ==
  IF ~R.hook.manager \/ ~R.hook.client THEN startFailed(R, r)
  ELSE LET I == initialize(R)
       IN  IF I.last.threw THEN startFailed(I, r)
           ELSE IF I.last.requested \/ I.last.joined
             THEN [I EXCEPT !.hook.runs[r].at = "initialize",
                            !.hook.runs[r].init = I.inits,
                            !.hook.runs[r].turn =
                               1 + Cardinality({q \in 1..Len(I.hook.runs) :
                                                  /\ I.hook.runs[q].at = "initialize"
                                                  /\ I.hook.runs[q].init = I.inits})]
           ELSE initialized(I, r)

\* startRecording: the intent is noted and beginCapture() called, which first awaits
\* ensureSession() when there is no client or no AudioManager.
startRecording(R) ==
  IF R.hook.isRecording THEN R
  ELSE LET A == [R EXCEPT !.hook.intent = TRUE, !.hook.stopped = FALSE,
                          !.hook.ended = "idle",
                          !.hook.runs = Append(@, NoRun)]
       IN  IF ~A.hook.client \/ ~A.hook.manager THEN A
           ELSE sessionReady(A, Len(R.hook.runs) + 1)

\* The beginCapture() calls that await the connect() of socket k go on: resolved,
\* ensureSession notes the session as active and returns; rejected, it throws.  (One
\* call at most awaits a socket; the same is written for every wait.)
connectSettled(R, k, ok) ==
  LET after[r \in 0..Len(R.hook.runs)] ==
        IF r = 0 THEN R
        ELSE LET S == after[r - 1]
                 run == S.hook.runs[r]
             IN  IF run.at # "connect" \/ run.sock # k THEN S
                 ELSE IF ok THEN sessionReady([S EXCEPT !.hook.active = TRUE,
                                                        !.hook.runs[r].sock = 0], r)
                 ELSE startFailed([S EXCEPT !.hook.runs[r].sock = 0], r)
  IN  after[Len(R.hook.runs)]

\* The beginCapture() calls that await the initialization whose getUserMedia request
\* was request i go on, in the order in which they began to wait (the reactions to a
\* promise run in the order they were added) and one microtask each at a time.
\* Resolved: each calls startCapture(sink), up to its await or its end (called); then
\* those whose startCapture returned go on to setIsRecording(true); then those whose
\* startCapture threw reach the catch of startRecording, one microtask later.
\* Rejected: each throws into that catch.  The requests after i move up one place.
initializeSettled(R, i, ok) ==
  LET n       == Len(R.hook.runs)
      waiting == {r \in 1..n : R.hook.runs[r].at = "initialize" /\ R.hook.runs[r].init = i}
      count   == Cardinality(waiting)
      who(t)  == CHOOSE r \in waiting : R.hook.runs[r].turn = t
      moved   == [R EXCEPT !.hook.runs =
                    [r \in 1..n |->
                       IF r \in waiting THEN [@[r] EXCEPT !.init = 0, !.turn = 0]
                       ELSE IF @[r].at = "initialize" /\ @[r].init > i
                         THEN [@[r] EXCEPT !.init = @ - 1]
                       ELSE @[r]]]
      called[t \in 0..count] ==
        IF t = 0 THEN moved
        ELSE With(called[t - 1], LAMBDA S :
               With(startCapture([S EXCEPT !.last.requested = FALSE,
                                           !.last.error = "none"]), LAMBDA T :
                 [T EXCEPT !.hook.runs[who(t)].at =
                             IF T.last.error # "none" THEN "threw"
                             ELSE IF T.last.requested THEN "startCapture"
                             ELSE "returned",
                           !.hook.runs[who(t)].load =
                             IF T.last.error = "none" /\ T.last.requested
                               THEN T.loads ELSE 0]))
      returned[t \in 0..count] ==
        IF t = 0 THEN called[count]
        ELSE With(returned[t - 1], LAMBDA S :
               IF S.hook.runs[who(t)].at # "returned" THEN S
               ELSE [S EXCEPT !.hook.runs[who(t)].at = "done",
                              !.hook.isRecording = TRUE])
      thrown[t \in 0..count] ==
        IF t = 0 THEN (IF ok THEN returned[count] ELSE moved)
        ELSE With(thrown[t - 1], LAMBDA S :
               IF ok /\ S.hook.runs[who(t)].at # "threw" THEN S
               ELSE startFailed(S, who(t)))
  IN  thrown[count]

\* The beginCapture() whose startCapture made addModule call j goes on; the calls
\* after it move up one place.  R is the state the end of that startCapture has left.
startCaptureSettled(R, j) ==
  LET after[r \in 0..Len(R.hook.runs)] ==
        IF r = 0 THEN R
        ELSE LET S == after[r - 1]
                 run == S.hook.runs[r]
             IN  IF run.at # "startCapture" THEN S
                 ELSE IF run.load > j THEN [S EXCEPT !.hook.runs[r].load = @ - 1]
                 ELSE IF run.load < j THEN S
                 ELSE captureStarted([S EXCEPT !.hook.runs[r].load = 0,
                                               !.last.requested = FALSE], r)
  IN  after[Len(R.hook.runs)]

\* stopRecording
stopRecording(R) == stopAudioCapture([R EXCEPT !.hook.intent = FALSE])

\* toggleRecording
toggleRecording(R) ==
  IF R.hook.isRecording \/ R.hook.intent THEN stopRecording(R) ELSE startRecording(R)

\* stopSessionInternal
stopSessionInternal(R) ==
  IF ~R.hook.active THEN R
  ELSE resetTranscripts(disconnectRealtime(stopAudioCapture(
         [R EXCEPT !.hook.active = FALSE, !.hook.intent = FALSE])))

\* The place in formers a client that is let go of takes: 0 when it has nothing left
\* to do, else the first place that is not taken.
HasPlace(R) == quiet(R, 0) \/ \E i \in Formers : quiet(R, i)
Place(R) ==
  IF quiet(R, 0) THEN 0
  ELSE CHOOSE i \in Formers : quiet(R, i) /\ \A j \in Formers : j < i => ~quiet(R, j)

\* ensureSession once its fetch has returned the session: the AudioManager and a new
\* client (allowInterruptions: true) are put in the refs, the handlers attached to the
\* client and connect() called.  The client before it was disconnected when its ref
\* was cleared, which neither cancels its timers nor unbinds its sockets, or is still
\* in the ref, put there by another ensureSession, and is replaced as it is: it goes
\* on among the former clients, and the calls whose tools are still executing will be
\* answered through it.
ensureSession(R, r) ==
  LET i == Place(R)
      M == [R EXCEPT !.formers = IF i = 0 THEN @ ELSE [@ EXCEPT ![i] = clientOf(R)],
                     !.sock = [k \in Slots |->
                                 IF R.sock[k].st # "closed" /\ R.sock[k].owner = 0
                                   THEN [R.sock[k] EXCEPT !.owner = i]
                                   ELSE R.sock[k]],
                     !.calls = [c \in CallIds |->
                                  IF R.calls[c].st = "running"
                                    THEN [R.calls[c] EXCEPT !.st = "detached", !.client = i]
                                    ELSE R.calls[c]]]
      N == withClient(Settled(M), [NoClient EXCEPT !.eventHandlers = TRUE])
      A == [N EXCEPT !.hook.manager = TRUE, !.hook.client = TRUE,
                     !.hook.runs[r].at = "connect",
                     !.lostOpen = FALSE, !.appended = 0]
      C == connect(A)
  IN  IF ~A.hasApiKey THEN startFailed(C, r) ELSE [C EXCEPT !.hook.runs[r].sock = C.ws]

Constructed ==
  /\ ws = 0
  /\ reconnectAttempts = 0
  /\ agentState = "idle"
  /\ intentionalClose = FALSE
  /\ hasBufferedAudio = FALSE
  /\ bufferedSamples = 0
  /\ hasReceivedAudio = FALSE
  /\ sessionUpdateSent = FALSE
  /\ pendingClear = TRUE
  /\ activeResponseCount = 0
  /\ cancelPending = FALSE
  /\ allowInterruptions \in BOOLEAN
  /\ hasApiKey \in BOOLEAN
  /\ eventHandlers = FALSE
  /\ sock = [k \in Slots |-> ClosedSocket]
  /\ timers = 0
  /\ formers = [i \in Formers |-> NoClient]
  /\ audioContext = FALSE
  /\ audioQueue = 0
  /\ isPlayingAudio = FALSE
  /\ currentSource = FALSE
  /\ playing = 0
  /\ stopping = 0
  /\ unresolved = 0
  /\ isInitializing = FALSE
  /\ isInitialized = FALSE
  /\ isClosing = FALSE
  /\ initializationPromise = FALSE
  /\ stream = FALSE
  /\ inits = 0
  /\ microphone = FALSE
  /\ onAudioDataCallback = FALSE
  /\ workletNode = FALSE
  /\ workletReady = FALSE
  /\ connected = FALSE
  /\ loads = 0
  /\ staleLoads = 0
  /\ registered = FALSE
  /\ last = NoOutput
  /\ lostOpen = FALSE
  /\ utterance = "none"
  /\ calls = [c \in CallIds |-> NoCall]
  /\ appended = 0
  /\ runClears = 0
  /\ cancelInFlight = FALSE
  /\ transcripts = NoTranscripts
  /\ messages = <<>>
  /\ hook = NoHook

Init ==
  /\ Constructed
  /\ norm = NoNorm
  /\ pcm = NoPcm
  /\ worklet = NoWorklet

\* A step of the client whose callbacks socket k carries.
Held(k) == clientOf(Swap(World, sock[k].owner))
BeginOn(k, op) == Swap(Begin(op), sock[k].owner)
CommitOn(k, R) == Commit(Back(World, R, sock[k].owner, FALSE))

\* The error and the close event of a failed connection are fired in one task: between
\* them only microtasks run (the reactions to the rejected connect() promise), so only
\* the caller's calls can come in between, no other browser event.
InTask == \E k \in Slots : sock[k].st = "errored"

\* ------------------------------------------------------ the caller's calls
\* The caller may call at any moment, also from a microtask in the middle of a task.
Callable == TRUE

Connect ==
  /\ hasApiKey => HasFreeSlot(World)
  /\ Commit(connect([Begin("connect") EXCEPT !.lostOpen = FALSE]))

\* The user presses the microphone button: toggleRecording, which starts recording
\* when neither isRecording nor userMicIntentRef is set, whether a beginCapture() is
\* in flight or not, and stops it otherwise.
StartRecording ==
  /\ ~hook.isRecording /\ ~hook.intent
  /\ Commit(toggleRecording(Begin("startRecording")))

StopRecording ==
  /\ hook.isRecording \/ hook.intent
  /\ Commit(toggleRecording([Begin("stopRecording") EXCEPT
                               !.hook.stopped = hook.stopped \/ hook.runs # <<>>]))

\* The user ends the session: stopSession.
StopSession ==
  /\ Callable
  /\ Commit(stopSessionInternal([Begin("stopSession") EXCEPT
                                   !.hook.stopped = hook.stopped \/ hook.runs # <<>>]))

\* The fetch of one ensureSession settles: failed, ensureSession throws; with the
\* session, it goes on to connect().
EnsureSession ==
  \E r \in 1..Len(hook.runs), ok \in BOOLEAN :
    /\ hook.runs[r].at = "fetch"
    /\ IF ok THEN /\ HasPlace(World)
                  /\ hasApiKey => HasFreeSlot(World)
                  /\ Commit(ensureSession(Begin("connect"), r))
             ELSE Commit(startFailed(Begin("ensureSession"), r))

Reconnect ==
  /\ hasApiKey => HasFreeSlot(World)
  /\ Commit(reconnect([Begin("reconnect") EXCEPT !.lostOpen = FALSE]))

Disconnect ==
  /\ Callable
  /\ Commit(disconnect([Begin("disconnect") EXCEPT !.lostOpen = FALSE]))

SendSessionUpdate ==
  /\ Callable
  /\ Commit(sendSessionUpdate(Begin("sendSessionUpdate")))

UpdateSessionConfig ==
  /\ Callable
  /\ Commit(updateSessionConfig(Begin("updateSessionConfig")))

SendAudio ==
  /\ (IF pendingClear THEN 0 ELSE bufferedSamples) + FrameSamples <= MaxBuffered
  /\ Commit(sendAudio(Begin("sendAudio"), FrameSamples))

CommitAudio ==
  /\ Callable
  /\ Commit(commitAudio(Begin("commitAudio")))

ClearAudioBuffer ==
  /\ Callable
  /\ Commit(clearAudioBuffer(Begin("clearAudioBuffer")))

CancelResponse ==
  /\ Callable
  /\ \E suppressState \in BOOLEAN :
       Commit(cancelResponse(Begin("cancelResponse"), suppressState))

\* audioManager.initialize(), as beginCapture calls it.
Initialize ==
  /\ Callable
  /\ Commit(initialize(Begin("initialize")))

\* --------------------------------------------------------- browser events
\* The socket opens.  When it is the socket of the connect() an ensureSession awaits,
\* whichever client realtimeClientRef holds by now, ensureSession notes the session as
\* active and beginCapture goes on.
SocketOpen(k) ==
  /\ ~InTask
  /\ sock[k].st = "connecting"
  /\ \E O \in {onopen([BeginOn(k, "onopen") EXCEPT !.sock[k].st = "open",
                                                   !.lostOpen = FALSE], k)} :
       \E B \in {Back(World, O, sock[k].owner, FALSE)} :
         Commit(connectSettled(B, k, TRUE))

\* The connection fails (during the handshake, after it, or because close() came
\* before the handshake ended): the error event.  When it is the socket of the
\* connect() ensureSession awaits, whether the client still holds it or not, the
\* rejection is thrown into the catch of startRecording.
SocketError(k) ==
  /\ ~InTask
  /\ sock[k].st \in {"connecting", "open", "failing"}
  /\ \E E \in {onerror([BeginOn(k, "onerror") EXCEPT !.sock[k].st = "errored"], k)} :
       \E B \in {Back(World, E, sock[k].owner, FALSE)} :
         Commit(connectSettled(B, k, FALSE))

\* The upstream starts a clean closing handshake.
ServerClose(k) ==
  /\ ~InTask
  /\ sock[k].st = "open"
  /\ Commit([Begin("closing") EXCEPT !.sock[k].st = "closing"])

\* The close event.
SocketClose(k) ==
  /\ sock[k].st = "errored" \/ (sock[k].st = "closing" /\ ~InTask)
  /\ LET wasOpen == sock[k].promise = "resolved"
         B == [BeginOn(k, "onclose") EXCEPT
                 !.last.opened = wasOpen,
                 !.lostOpen = lostOpen \/ (wasOpen /\ ~intentionalClose)]
         C == onclose(B)
     IN  CommitOn(k, [C EXCEPT !.sock[k] = ClosedSocket])

\* The setTimeout callback of attemptReconnect: this.connect().catch(...), of the
\* client that set the timer.
ReconnectTimer ==
  /\ ~InTask
  /\ \E i \in 0..MaxFormer :
       /\ clientOf(Swap(World, i)).timers > 0
       /\ hasApiKey => HasFreeSlot(Swap(World, i))
       /\ Commit(Back(World,
                      connect([Swap(Begin("timer"), i) EXCEPT !.timers = @ - 1]),
                      i, FALSE))

\* ws.onmessage.  The upstream acknowledges only clears it received, streams audio
\* and finishes a response only while it has one under way.
Deliver(k, m) ==
  /\ ~InTask
  /\ sock[k].st = "open"
  /\ CommitOn(k, handleServerMessage(BeginOn(k, m), m))

\* The frames ws.onmessage can be handed besides the messages above: text that is not
\* JSON, the JSON null, a message of a type the client does not know, and the error
\* message with an error object that has a message, has none, or without the object.
Frames == {"garbage", "null", "unknown", "error", "error.bare", "error.none"}

ServerMessage(k) ==
  /\ ~InTask
  /\ sock[k].st = "open"
  /\ \E frame \in Frames :
       CommitOn(k, onmessage([BeginOn(k, "onmessage") EXCEPT !.last.frame = frame], frame))

\* The upstream's voice activity detection reports on the audio it was sent.
SpeechStarted(k) ==
  /\ sock[k].st = "open"
  /\ Deliver(k, "input_audio_buffer.speech_started")

SpeechStopped(k) ==
  /\ sock[k].st = "open"
  /\ Deliver(k, "input_audio_buffer.speech_stopped")

BufferCleared(k) ==
  /\ ~InTask
  /\ sock[k].st = "open"
  /\ sock[k].clears > 0
  /\ CommitOn(k, handleServerMessage(
       [BeginOn(k, "input_audio_buffer.cleared") EXCEPT
          !.sock[k].clears = sock[k].clears - 1],
       "input_audio_buffer.cleared"))

ResponseCreated(k) ==
  /\ ~InTask
  /\ sock[k].st = "open"
  /\ ~sock[k].response
  /\ CommitOn(k, handleServerMessage(
       [BeginOn(k, "response.created") EXCEPT !.sock[k].response = TRUE],
       "response.created"))

AudioDelta(k) ==
  /\ sock[k].response
  /\ (Held(k).eventHandlers /\ audioContext)
       => (audioQueue < MaxQueue /\ unresolved < MaxUnresolved)
  /\ ~InTask
  /\ sock[k].st = "open"
  /\ \E decodable \in BOOLEAN :
       CommitOn(k, handleServerMessage(
         [BeginOn(k, "response.audio.delta") EXCEPT !.last.decodable = decodable],
         "response.audio.delta"))

ResponseFinished(k, m) ==
  /\ ~InTask
  /\ sock[k].st = "open"
  /\ sock[k].response
  /\ CommitOn(k, handleServerMessage([BeginOn(k, m) EXCEPT !.sock[k].response = FALSE], m))

\* response.created, response.done and response.canceled in any order and number, as
\* ws.onmessage hands them to handleServerMessage whatever the upstream is doing.
ResponseEvents == {"response.created", "response.done", "response.canceled"}

ResponseEvent(k) ==
  /\ ~InTask
  /\ sock[k].st = "open"
  /\ \E m \in ResponseEvents :
       /\ m = "response.created" => Held(k).activeResponseCount < MaxActive
       /\ CommitOn(k, handleServerMessage(BeginOn(k, m), m))

ResponseDone(k) ==
  /\ sock[k].response
  /\ ResponseFinished(k, "response.done")

ResponseCanceled(k) ==
  /\ sock[k].response
  /\ ResponseFinished(k, "response.canceled")

\* What getToolByName finds for a name that is not registered.
NoSuchTool ==
  [known |-> FALSE, executionType |-> "mcp", integrationId |-> FALSE,
   parameters |-> "none"]

\* The upstream model calls a function: response.function_call_arguments.done with a
\* call id not used before, with or without a tool name, the name of a registered tool
\* or not, while the hook has a session id or not.  The call is answered in this step
\* unless it is left awaiting executeTool; the handler is a closure over the client
\* that received the message, so a call a client other than the one in
\* realtimeClientRef is left with will be answered through that client.
FunctionCall(k) ==
  /\ ~InTask
  /\ sock[k].st = "open"
  /\ \E c \in CallIds, named \in BOOLEAN, session \in BOOLEAN, known \in BOOLEAN :
       /\ calls[c].st = "none"
       /\ \A b \in CallIds : b < c => calls[b].st # "none"
       /\ \E H \in {handleServerMessage(
                       [BeginOn(k, "response.function_call_arguments.done") EXCEPT
                          !.calls[c].conn = k,
                          !.last.call = [id |-> c, named |-> named, session |-> session,
                                         known |-> known],
                          !.last.tool = IF named /\ session /\ ~known
                                          THEN executeTool(TRUE, NoSuchTool, <<>>,
                                                           NoNested, TRUE)
                                          ELSE NoTool],
                       "response.function_call_arguments.done")} :
            CommitOn(k, IF sock[k].owner # 0 /\ H.calls[c].st = "running"
                          THEN [H EXCEPT !.calls[c].st = "detached",
                                         !.calls[c].client = sock[k].owner]
                          ELSE H)

\* The tools getToolByName can find for a name, and the arguments of a call.
Tools ==
  [known : {TRUE}, executionType : {"mcp", "webhook"}, integrationId : BOOLEAN,
   parameters : {"email"}]

ToolArgs ==
  { << <<"to", "a@x.com">>, <<"Subject", "Hi">>, <<"message", "Hello">> >>,
    << <<"subject", "Hi">> >>,
    << <<"to", " ">>, <<"message", "Hello">> >> }

\* await executeTool(...) settles for a call that named a registered tool: which tool,
\* with what arguments, and how its executor fares, is drawn here.
Outcomes ==
  { executeTool(TRUE, tool, params, NoNested, executorOk) :
      tool \in Tools, params \in ToolArgs, executorOk \in BOOLEAN }

ToolSettles(c) ==
  /\ calls[c].st = "running"
  /\ \E outcome \in Outcomes :
       Commit(onToolSettled(Begin("toolSettled"), c, outcome))

\* The nested invocations a fan-out call can carry: naming a registered tool, by its
\* name or in another spelling of it, a tool
\* known only by the look of its slug, an unknown tool or none; with their arguments
\* under one of the keys (args here) or without arguments.
ChildArgs ==
  { << <<"to", "a@x.com">>, <<"message", "Hello">> >>,
    << <<"subject", "Hi">> >>,
    << >> }

Invocations ==
  [slug : {"send_email", "Send-Email", "add_note", "compose_mail", "lookup", "none"},
   payload : {"args", "none"},
   args : ChildArgs]

NestedLists ==
  [key : {"tools", "tool_calls"},
   list : UNION {[1..n -> Invocations] : n \in 0..MaxNested}]

ParentTools ==
  [known : {TRUE}, executionType : {"mcp", "webhook"}, integrationId : {TRUE},
   parameters : {"email", "note"}]

ParentArgs ==
  { << <<"to", "a@x.com">>, <<"Subject", "Hi">>, <<"message", "Hello">> >>,
    << <<"subject", "Hi">> >> }

\* executeTool called once with a fan-out call.
ExecuteNested ==
  /\ last.op = "init"
  /\ \E tool \in ParentTools, params \in ParentArgs, nested \in NestedLists :
       \E outcome \in {executeTool(TRUE, tool, params, nested, TRUE)} :
         Commit([Begin("executeTool") EXCEPT !.last.tool = outcome])

\* executeTool settles for a call that a client other than the one in
\* realtimeClientRef received: the handler answers through that client, whose send()
\* drops both messages unless it holds an open socket (a client that was disconnected
\* holds one only when a timer of its has connected it again; one with neither socket
\* nor timer left holds none).
DetachedToolSettles(c) ==
  /\ calls[c].st = "detached"
  /\ \E outcome \in Outcomes :
       IF calls[c].client = 0
         THEN Commit([Begin("toolSettled") EXCEPT
                        !.calls[c].st = "settled", !.last.settled = c,
                        !.last.tool = outcome, !.last.preOpen = FALSE])
         ELSE \E S \in {Swap(Begin("toolSettled"), calls[c].client)} :
                Commit(Back(World,
                            onToolSettled([S EXCEPT !.last.preOpen = isConnected(S)],
                                          c, outcome),
                            calls[c].client, TRUE))

\* The arguments objects reconciliation is tried on: up to MaxArgs of these entries,
\* with different keys.
RawEntries ==
  { <<"to", "a@x.com">>, <<"to", " ">>, <<"Subject", "Hi">>, <<"Subject", " ">>,
    <<"subject", "Hi">>,
    <<"message", "Hello">>, <<"body", "Hello">>, <<"body", " ">> }

RawArgs ==
  {args \in UNION {[1..n -> RawEntries] : n \in 0..MaxArgs} :
     \A i, j \in 1..Len(args) : i # j => args[i][1] # args[j][1]}

\* The state in which one schema and one arguments object await reconciliation.
InitNormalize ==
  /\ Constructed
  /\ allowInterruptions /\ hasApiKey
  /\ \E name \in Schemas, rawArgs \in RawArgs :
       norm = [NoNorm EXCEPT !.schema = name, !.rawArgs = rawArgs]
  /\ pcm = NoPcm
  /\ worklet = NoWorklet

\* Arguments that compete for the two fields of the memo schema: the field's own name
\* and a synonym for recipient_email; a synonym and two spellings of the one token for
\* bodytext_bodytext.
RivalEntries ==
  { <<"to", "a@x.com">>, <<"recipient_email", "b@x.com">>, <<"message", "Hello">>,
    <<"bodytext", "Hi">>, <<"BodyText", "hi">> }

RivalArgs ==
  {args \in UNION {[1..n -> RivalEntries] : n \in 0..MaxArgs} :
     \A i, j \in 1..Len(args) : i # j => args[i][1] # args[j][1]}

InitPriority ==
  /\ Constructed
  /\ allowInterruptions /\ hasApiKey
  /\ \E rawArgs \in RivalArgs :
       norm = [NoNorm EXCEPT !.schema = "memo", !.rawArgs = rawArgs]
  /\ pcm = NoPcm
  /\ worklet = NoWorklet

\* normalizeMCPArguments(toolName, inputSchema, rawArgs) is called; what
\* performNormalization returned and whether the call threw are kept.
Normalize ==
  /\ norm.schema # "none" /\ ~norm.done
  /\ LET result == performNormalization(Schema(norm.schema), norm.rawArgs)
     IN  Commit([Begin("normalize") EXCEPT
                   !.norm = [norm EXCEPT
                     !.done = TRUE,
                     !.normalized = result.normalized,
                     !.missingRequired = result.missingRequired,
                     !.logs = result.logs,
                     !.threw = normalizeMCPArguments(Schema(norm.schema), norm.rawArgs).threw]])

\* audioManager.playAudioData(chunk) and audioManager.stopPlayback(), called directly.
PlayAudioData ==
  /\ audioQueue < MaxQueue
  /\ unresolved < MaxUnresolved
  /\ \E decodable \in BOOLEAN :
       Commit(playAudioData(Begin("playAudioData"), decodable))

StopPlayback ==
  /\ Callable
  /\ Commit(stopPlayback(Begin("stopPlayback")))

\* audioManager.close(): playback stopped and the AudioContext closed.
AudioClose ==
  /\ Callable
  /\ \E force \in BOOLEAN :
       Commit(closeAudio([Begin("close") EXCEPT
                            !.last.force = force,
                            !.last.repeat = (last.op = "close" /\ last.force = force)],
                         force))

\* audioManager.startCapture(sink) and audioManager.stopCapture(), called directly.
StartCapture ==
  /\ loads < MaxLoads
  /\ Commit(startCapture(Begin("startCapture")))

StopCapture ==
  /\ Callable
  /\ Commit(stopCapture(Begin("stopCapture")))

\* audioWorklet.addModule resolves or rejects for one startCapture: call j of those
\* pending, the oldest being 1; the calls made on an AudioContext since released are
\* the oldest.  The beginCapture() that awaits this startCapture goes on.
ModuleSettles ==
  /\ ~InTask
  /\ \E j \in 1..loads, ok \in BOOLEAN :
       \E S \in {moduleSettled(Begin("addModule"), ok, j <= staleLoads)} :
         Commit(startCaptureSettled(S, j))

\* getUserMedia resolves with a stream or rejects for one performInitialization:
\* request i of those pending, the oldest being 1.  Its promise is fulfilled when it
\* went through to the end, and the beginCapture() calls that await it go on.
MediaSettles ==
  /\ ~InTask
  /\ \E i \in 1..inits, ok \in BOOLEAN :
       \E T \in {mediaSettled(Begin("getUserMedia"), ok)} :
         Commit(initializeSettled(T, i, ~T.last.threw))

\* A source plays its buffer to the end: its ended event.
BufferEnded ==
  /\ ~InTask
  /\ playing > 0
  /\ Commit(sourceEnded([Begin("onended") EXCEPT !.playing = playing - 1]))

\* The ended event of a source that stopPlayback stopped.
StoppedSourceEnded ==
  /\ ~InTask
  /\ stopping > 0
  /\ Commit(sourceEnded([Begin("onended") EXCEPT !.stopping = stopping - 1]))

\* The connection: the caller's connect/reconnect/disconnect and what the browser does
\* with the sockets.
ConnEvents ==
  \/ Connect
  \/ Reconnect
  \/ Disconnect
  \/ \E k \in Slots : SocketOpen(k)
  \/ \E k \in Slots : SocketError(k)
  \/ \E k \in Slots : ServerClose(k)
  \/ \E k \in Slots : SocketClose(k)
  \/ ReconnectTimer

\* The connection and the session configuration.  The steps left out write none of
\* ws, sock[k].st, sessionUpdateSent, intentionalClose, reconnectAttempts and timers,
\* which is all these steps read.
NextConn ==
  \/ ConnEvents
  \/ SendSessionUpdate
  \/ UpdateSessionConfig
  \/ SendAudio

SpecConn == Init /\ [][NextConn]_vars

\* The session as useVoiceEmbed drives it: the microphone button and stopSession,
\* pressed whatever start-up is in flight, the connect() of each ensureSession, the
\* automatic reconnection, and the device being acquired.
SessionEvents ==
  \/ StartRecording
  \/ StopRecording
  \/ StopSession
  \/ EnsureSession
  \/ \E k \in Slots : SocketOpen(k)
  \/ \E k \in Slots : SocketError(k)
  \/ \E k \in Slots : ServerClose(k)
  \/ \E k \in Slots : SocketClose(k)
  \/ ReconnectTimer
  \/ MediaSettles
  \/ ModuleSettles

\* The session of one client and one start-up at a time: the user presses the button
\* again once the start-up before has settled, and asks for a new session once the
\* client of the last one has nothing left to do, so that no former client takes
\* steps of its own.  (The start-ups in flight together and the sessions that overlap
\* a former client are those of SpecStartup and SpecTools.)
StartRecordingAlone ==
  /\ hook.client \/ quiet(World, 0)
  /\ hook.runs = <<>>
  /\ StartRecording

SessionAlone ==
  \/ StartRecordingAlone
  \/ StopRecording
  \/ StopSession
  \/ EnsureSession
  \/ \E k \in Slots : SocketOpen(k)
  \/ \E k \in Slots : SocketError(k)
  \/ \E k \in Slots : ServerClose(k)
  \/ \E k \in Slots : SocketClose(k)
  \/ ReconnectTimer
  \/ MediaSettles
  \/ ModuleSettles

\* The connection, the responses and the playback.  The steps left out (session
\* configuration, captured audio) write nothing these steps read.
NextTurn ==
  \/ SessionAlone
  \/ CancelResponse
  \/ BufferEnded
  \/ StoppedSourceEnded
  \/ \E k \in Slots : SpeechStarted(k)
  \/ \E k \in Slots : SpeechStopped(k)
  \/ \E k \in Slots : ResponseCreated(k)
  \/ \E k \in Slots : AudioDelta(k)
  \/ \E k \in Slots : ResponseDone(k)
  \/ \E k \in Slots : ResponseCanceled(k)
  \/ \E k \in Slots : ServerMessage(k)

SpecTurn == Init /\ [][NextTurn]_vars

\* The client used without useVoiceEmbed, with interruptions allowed or not: its
\* connection and the turns of a conversation.
NextClientTurn ==
  \/ Connect
  \/ Disconnect
  \/ \E k \in Slots : SocketOpen(k)
  \/ \E k \in Slots : SocketError(k)
  \/ \E k \in Slots : ServerClose(k)
  \/ \E k \in Slots : SocketClose(k)
  \/ ReconnectTimer
  \/ CancelResponse
  \/ \E k \in Slots : SpeechStarted(k)
  \/ \E k \in Slots : SpeechStopped(k)
  \/ \E k \in Slots : ResponseCreated(k)
  \/ \E k \in Slots : AudioDelta(k)
  \/ \E k \in Slots : ResponseDone(k)
  \/ \E k \in Slots : ResponseCanceled(k)

SpecClientTurn == Init /\ [][NextClientTurn]_vars

\* The session and the AudioManager being shut down: disconnect() and close() called
\* at any moment of a session that has responses, playback and initializations.
NextShutdown ==
  \/ SessionAlone
  \/ Disconnect
  \/ AudioClose
  \/ BufferEnded
  \/ StoppedSourceEnded
  \/ \E k \in Slots : ResponseCreated(k)
  \/ \E k \in Slots : AudioDelta(k)

SpecShutdown == Init /\ [][NextShutdown]_vars

\* The connection and the captured audio.
NextAudioIn ==
  \/ ConnEvents
  \/ SendAudio
  \/ CancelResponse
  \/ \E k \in Slots : SpeechStarted(k)
  \/ \E k \in Slots : SpeechStopped(k)
  \/ \E k \in Slots : BufferCleared(k)
  \/ \E k \in Slots : ResponseCreated(k)
  \/ \E k \in Slots : ResponseDone(k)

SpecAudioIn == Init /\ [][NextAudioIn]_vars

\* The input buffer as a whole, on such a connection: the captured audio, the caller's
\* commit, clear and cancel, and the upstream's speech detection.
NextCapture ==
  \/ SessionAlone
  \/ SendAudio
  \/ CommitAudio
  \/ ClearAudioBuffer
  \/ CancelResponse
  \/ \E k \in Slots : SpeechStarted(k)
  \/ \E k \in Slots : SpeechStopped(k)
  \/ \E k \in Slots : BufferCleared(k)
  \/ \E k \in Slots : ResponseCreated(k)
  \/ \E k \in Slots : ResponseDone(k)

SpecCapture == Init /\ [][NextCapture]_vars

\* The AudioManager alone: its calls, getUserMedia and the ended events of its sources.
NextAudioManager ==
  \/ Initialize
  \/ MediaSettles
  \/ AudioClose
  \/ StartCapture
  \/ StopCapture
  \/ ModuleSettles
  \/ PlayAudioData
  \/ StopPlayback
  \/ BufferEnded
  \/ StoppedSourceEnded

SpecAudioManager == Init /\ [][NextAudioManager]_vars

\* Playback alone.  The ended event of a source that was started is delivered by the
\* browser sooner or later, whether the buffer ran out or stop() was called; nothing
\* obliges the caller to call anything.
NextPlayback ==
  \/ Initialize
  \/ MediaSettles
  \/ AudioClose
  \/ PlayAudioData
  \/ StopPlayback
  \/ BufferEnded
  \/ StoppedSourceEnded

SpecPlayback ==
  /\ Init
  /\ [][NextPlayback]_vars
  /\ WF_vars(BufferEnded)
  /\ WF_vars(StoppedSourceEnded)

\* The tool calls on the connections of the clients useVoiceEmbed builds, which allow
\* interruptions and carry the token of the session, the former clients included:
\* the microphone button is pressed and stopSession called whatever is in flight, the
\* sockets open, fail and close, and the reconnect timers fire.  The input device is
\* left pending: no step of a tool call reads the AudioManager.
InitTools == Init /\ allowInterruptions /\ hasApiKey

NextTools ==
  \/ StartRecording
  \/ StopSession
  \/ EnsureSession
  \/ \E k \in Slots : SocketOpen(k)
  \/ \E k \in Slots : SocketError(k)
  \/ \E k \in Slots : ServerClose(k)
  \/ \E k \in Slots : SocketClose(k)
  \/ ReconnectTimer
  \/ \E k \in Slots : FunctionCall(k)
  \/ \E c \in CallIds : ToolSettles(c)
  \/ \E c \in CallIds : DetachedToolSettles(c)

SpecTools == InitTools /\ [][NextTools]_vars

\* One sample of received audio is decoded for playback and, played into the
\* microphone unchanged, encoded again by the capture worklet.
InitQuantize ==
  /\ Constructed
  /\ allowInterruptions /\ hasApiKey
  /\ norm = NoNorm
  /\ worklet = NoWorklet
  /\ \E x \in -32768..32767 : pcm = [NoPcm EXCEPT !.x = x, !.st = "received"]

Decode ==
  /\ pcm.st = "received"
  /\ Commit([Begin("decode") EXCEPT
               !.pcm = [pcm EXCEPT !.float = decodeSample(pcm.x), !.st = "decoded"]])

Encode ==
  /\ pcm.st = "decoded"
  /\ Commit([Begin("encode") EXCEPT
               !.pcm = [pcm EXCEPT !.y = encodeSample(pcm.float), !.st = "encoded"]])

NextQuantize ==
  \/ Decode
  \/ Encode

SpecQuantize == InitQuantize /\ [][NextQuantize]_vars

\* The rates an AudioContext may run at, the rate the worklet is asked for, and the
\* signals: every sequence of up to MaxSignal samples of -1, 0 and 1.
SampleRates == {12000, 24000, 36000, 44100, 48000}
targetSampleRate == 24000
Signals ==
  UNION {[1..n -> {FFromInt(v) : v \in {-1, 0, 1}}] : n \in 1..MaxSignal}

\* A new processor (phase 0) and the signal it is going to be fed.
InitResample ==
  /\ Constructed
  /\ allowInterruptions /\ hasApiKey
  /\ norm = NoNorm
  /\ pcm = NoPcm
  /\ \E rate \in SampleRates, signal \in Signals :
       worklet = PCMDownsamplerProcessor(rate, targetSampleRate, signal)

\* The next block of the signal, of any length, is handed to process().
Process ==
  /\ worklet.fed < Len(worklet.signal)
  /\ \E n \in 1..(Len(worklet.signal) - worklet.fed) :
       Commit([Begin("process") EXCEPT !.worklet = process(worklet, n)])

NextResample == Process

SpecResample == InitResample /\ [][NextResample]_vars

\* The reconciliation of arguments alone.
NextNormalize == Normalize

SpecNormalize == InitNormalize /\ [][NextNormalize]_vars

\* The reconciliation of arguments that compete for a field.
SpecPriority == InitPriority /\ [][NextNormalize]_vars

\* Everything together.  Its state space is the product of the parts' and is too large
\* to enumerate; each property is checked under the part that holds all it reads.
\* The response counter under every order of the response events and the calls that
\* reset it.
NextResponses ==
  \/ ConnEvents
  \/ CancelResponse
  \/ \E k \in Slots : SpeechStarted(k)
  \/ \E k \in Slots : ResponseEvent(k)

SpecResponses == Init /\ [][NextResponses]_vars

InitNested == Init /\ allowInterruptions /\ hasApiKey

NextNested == ExecuteNested

SpecNested == InitNested /\ [][NextNested]_vars

\* ------------------------------------------------------ the transcripts alone
\* The transcript messages of the upstream, which the client emits as transcript.delta
\* and transcript.done events to the handlers of useVoiceEmbed: the deltas and the
\* final texts of both speakers, for an item or without an item id.
MaxText == 1
MaxMessages == 2
MaxBuffers == 2

Deltas == {<<"a">>, <<" ">>}
FinalTexts == {<<>>, <<" ">>, <<"b">>}

TranscriptDelta(k, event) ==
  /\ ~InTask
  /\ sock[k].st = "open"
  /\ Len(transcripts[event.role][eventItemId(transcripts, event)].text) + Len(event.text)
       <= MaxText
  /\ \/ transcripts[event.role][eventItemId(transcripts, event)].has
     \/ Cardinality({id \in DOMAIN transcripts[event.role] : transcripts[event.role][id].has})
          < MaxBuffers
  /\ CommitOn(k, handleServerMessage(
                   [BeginOn(k, "transcript.delta") EXCEPT !.last.event = event],
                   "transcript.delta"))

TranscriptDone(k, event) ==
  /\ ~InTask
  /\ sock[k].st = "open"
  /\ Len(messages) < MaxMessages
  /\ CommitOn(k, handleServerMessage(
                   [BeginOn(k, "transcript.done") EXCEPT !.last.event = event],
                   "transcript.done"))

\* resetConversation, which the hook hands to its caller.
ResetConversation ==
  /\ Callable
  /\ Commit(resetConversation(Begin("resetConversation")))

InitTranscript == Init /\ allowInterruptions /\ hasApiKey

\* A session being started and stopped, and the transcript events of its connection.
\* The steps left out write nothing of the transcripts and the conversation.
NextTranscript ==
  \/ StartRecordingAlone
  \/ EnsureSession
  \/ StopSession
  \/ ResetConversation
  \/ \E k \in Slots : SocketOpen(k)
  \/ \E k \in Slots : SpeechStarted(k)
  \/ \E k \in Slots :
       \E event \in [role : Roles, itemId : ItemIds \cup {"none"}, text : Deltas] :
         TranscriptDelta(k, event)
  \/ \E k \in Slots :
       \E event \in [role : Roles, itemId : ItemIds \cup {"none"}, text : FinalTexts] :
         TranscriptDone(k, event)

SpecTranscript == InitTranscript /\ [][NextTranscript]_vars

\* The start-up of a session alone.
InitStartup == Init /\ allowInterruptions /\ hasApiKey

NextStartup == SessionEvents

SpecStartup == InitStartup /\ [][NextStartup]_vars

Next ==
  \/ NextClientTurn
  \/ NextStartup
  \/ NextTranscript
  \/ NextResponses
  \/ NextNested
  \/ NextQuantize
  \/ NextResample
  \/ NextConn
  \/ NextTurn
  \/ NextShutdown
  \/ NextAudioIn
  \/ CommitAudio
  \/ ClearAudioBuffer
  \/ NextCapture
  \/ NextTools
  \/ NextNormalize
  \/ NextAudioManager

Spec == Init /\ [][Next]_vars

\* ============================================================ properties
Has(seq, x) == \E i \in 1..Len(seq) : seq[i] = x
Count(seq, x) == Cardinality({i \in 1..Len(seq) : seq[i] = x})

\* ---- C1 (does not hold of the code)
\* C1: after disconnect() nothing reconnects until the caller calls connect() or
\* reconnect(): no reconnect timer runs connect() while intentionalClose is still set
\* (it is set by disconnect() alone and cleared by every connect()).
C1_NoReconnectAfterDisconnect ==
  ~(last.op = "timer" /\ last.preIntentional)

\* ---- C2 (does not hold of the code)
\* C2: when, after an open connection was lost and no attempt to reconnect succeeded,
\* the client stops retrying (the last socket closes, nothing is scheduled and no timer
\* is pending), it has made maxReconnectAttempts attempts and that step emits an error
\* event telling so.
C2_GivesUpWithTerminalError ==
  (/\ last.op = "onclose" /\ ~last.scheduled
   /\ lostOpen /\ ~intentionalClose
   /\ timers = 0 /\ \A k \in Slots : sock[k].st = "closed")
    => (reconnectAttempts = maxReconnectAttempts /\ Has(last.emitted, "error"))

\* ---- C3 (does not hold of the code)
\* C3: the close of a socket that never opened, while no reconnection is under way
\* (the attempt counter is 0), schedules no reconnection attempt.
C3_FailedFirstConnectNotRetried ==
  (last.op = "onclose" /\ ~last.opened /\ last.preAttempts = 0) => ~last.scheduled

\* ---- C4 (does not hold of the code)
\* C4: at most one socket whose callbacks are bound to the client is connecting or open.
C4_AtMostOneLiveSocket ==
  Cardinality({k \in Slots : Live(sock[k])}) <= 1

\* ---- C5
\* C5: on no socket is session.update transmitted more than once.
C5_AtMostOneSessionUpdate ==
  \A k \in Slots : sock[k].updates <= 1

\* A sendSessionUpdate()/updateSessionConfig() on an open socket that already carried
\* its session.update, and sent nothing.
C5_Witness ==
  /\ last.op \in {"sendSessionUpdate", "updateSessionConfig"}
  /\ last.preOpen
  /\ last.sent = <<>>
  /\ ws # 0 /\ sock[ws].st = "open" /\ sock[ws].updates = 1

\* ---- C6 (does not hold of the code)
\* C6: the socket the client holds, once open, has carried exactly one session.update,
\* and no input_audio_buffer.append before it.
C6_OpenSocketConfiguredOnce ==
  (ws # 0 /\ sock[ws].st = "open")
    => (sock[ws].updates = 1 /\ ~sock[ws].appendFirst)

\* ---- C7 (as stated it does not hold; amended)
SpeechStartedWhileSpeaking ==
  /\ last.op = "input_audio_buffer.speech_started"
  /\ last.preState = "speaking"

PlaybackCleared == audioQueue = 0 /\ ~isPlayingAudio

\* C7 as stated: speech_started while speaking with interruptions allowed emits an
\* interruption, sends exactly one response.cancel and clears the playback queue.
C7_Original ==
  (SpeechStartedWhileSpeaking /\ allowInterruptions)
    => /\ Count(last.emitted, "interruption") = 1
       /\ Count(last.sent, "response.cancel") = 1
       /\ eventHandlers => PlaybackCleared

\* C7 amended: the response.cancel is sent exactly when a response is active, no cancel
\* is pending and the socket held is open; otherwise none is sent.
C7_InterruptOnSpeechStarted ==
  (SpeechStartedWhileSpeaking /\ allowInterruptions)
    => /\ Count(last.emitted, "interruption") = 1
       /\ Count(last.sent, "response.cancel") =
            (IF last.preActive /\ ~last.prePending /\ last.preOpen THEN 1 ELSE 0)
       /\ eventHandlers => PlaybackCleared

\* A barge-in that found audio queued or playing, and cancelled the response.
C7_Witness ==
  /\ SpeechStartedWhileSpeaking /\ allowInterruptions
  /\ last.preQueued /\ eventHandlers
  /\ Count(last.sent, "response.cancel") = 1

\* ---- C8
\* C8: with interruptions disabled, speech_started while speaking sends no
\* response.cancel.
C8_NoCancelWhenInterruptionsDisabled ==
  (SpeechStartedWhileSpeaking /\ ~allowInterruptions)
    => ~Has(last.sent, "response.cancel")

\* Such a speech_started, in a state where cancelResponse() would have sent one.
C8_Witness ==
  /\ SpeechStartedWhileSpeaking /\ ~allowInterruptions
  /\ last.preActive /\ ~last.prePending /\ last.preOpen

\* ---- C9
\* C9: a response.cancel is transmitted only while activeResponseCount > 0 and while no
\* earlier response.cancel is in flight (none transmitted since the last
\* response-finished event or connect()).  cancelResponse is the only writer of
\* response.cancel, and only cancelResponse() and speech_started call it.
C9_CancelGated ==
  Has(last.sent, "response.cancel") => (last.preActive /\ ~last.preInFlight)

\* A cancelResponse() during an active response whose cancel is in flight: nothing sent.
C9_Witness ==
  /\ last.op = "cancelResponse"
  /\ last.preActive /\ last.preInFlight
  /\ last.sent = <<>>

\* ---- C10 (does not hold of the code)
\* C10: every frame sendAudio transmits belongs to a run in which exactly one
\* input_audio_buffer.clear has been transmitted, and a frame that clears does so
\* right before its append.  (A run ends at speech_started, speech_stopped, an
\* effective cancelResponse, connect() and disconnect().)
C10_OneClearPerRun ==
  (last.op = "sendAudio" /\ last.sent # <<>>)
    => /\ runClears = 1
       /\ Has(last.sent, "input_audio_buffer.clear")
            => last.sent = <<"input_audio_buffer.clear", "input_audio_buffer.append">>

\* ---- C11 (does not hold of the code)
\* C11: between two speech_stopped events (or from connect()), however many
\* speech_started events arrive while frames keep coming, no second
\* input_audio_buffer.clear follows the first one sent after a speech_started.
C11_OneClearPerUtterance ==
  utterance # "recleared"

\* ---- C12
\* C12: a step of commitAudio() that transmits input_audio_buffer.commit finds at least
\* MinCommitSamples samples transmitted since the last clear, commit, speech_started,
\* speech_stopped or cancel; with fewer it transmits nothing.
C12_CommitGated ==
  (last.op = "commitAudio" /\ last.sent # <<>>)
    => (last.sent = <<"input_audio_buffer.commit">> /\ last.preAppended >= MinCommitSamples)

\* A commitAudio() on an open connection with some samples appended, but too few: nothing
\* is sent.
C12_Witness ==
  /\ last.op = "commitAudio" /\ last.preOpen
  /\ last.preAppended > 0 /\ last.preAppended < MinCommitSamples
  /\ last.sent = <<>>

\* ---- C13 (holds when the connection is open as the call is answered)
\* C13 as stated: every call that named a tool and has been answered had exactly one
\* function_call_output item sent upstream.  A call to a registered tool is answered
\* when executeTool settles, which is after the executor and the insert of the
\* execution record, by when the connection may be gone.
C13_Original ==
  \A c \in CallIds : calls[c].st = "settled" => calls[c].outputs = 1

\* C13: the step that answers a call (the step of the message itself without a session
\* id or for a tool that is not registered, otherwise the one in which executeTool
\* settles, whatever its outcome) transmits the function_call_output item
\* and then response.create, and nothing else, if the connection is open at that moment
\* and nothing if it is not; no call gets a second item; the step emits no event and
\* leaves an open connection open.
C13_OutputThenResponse ==
  /\ \A c \in CallIds : calls[c].outputs <= 1
  /\ \A c \in CallIds : calls[c].st # "settled" => calls[c].outputs = 0
  /\ (last.settled # 0) =>
       /\ last.sent = IF last.preOpen
                        THEN <<"conversation.item.create", "response.create">>
                        ELSE <<>>
       /\ last.emitted \in {<<>>, <<"function_call">>}
       /\ last.preOpen => last.postOpen

\* The executor of a registered tool failed while the connection was open and another
\* call was still awaiting its tool: the item and response.create went out for the
\* call that settled, and nothing for the other.
C13_Witness ==
  /\ last.op = "toolSettled" /\ last.preOpen
  /\ last.tool.invoked # "none" /\ last.tool.payload = "error"
  /\ last.sent = <<"conversation.item.create", "response.create">>
  /\ calls[last.settled].outputs = 1
  /\ \E c \in CallIds : calls[c].st = "running" /\ calls[c].outputs = 0

\* ---- C14
\* What executeTool can settle with for a call to a known tool whose arguments, once
\* reconciled with the schema of the tool, leave a required field missing (worked out
\* here from the arguments, whatever executeTool made of them).
LackingRequired ==
  { outcome \in Outcomes :
      /\ outcome.parameters # "none"
      /\ performNormalization(Schema(outcome.parameters),
                              outcome.params).missingRequired # <<>> }

\* C14: when reconciling the arguments of a call to a known tool leaves a required
\* field missing, executeTool invokes neither tool.execute nor triggerN8NWebhook, does
\* not throw, and returns an error payload.
C14_NoDispatchOnMissingRequired ==
  /\ last.op = "toolSettled" => last.tool \in Outcomes
  /\ (last.op = "toolSettled" /\ last.tool \in LackingRequired)
       => /\ last.tool.invoked = "none"
          /\ ~last.tool.threw
          /\ last.tool.payload = "error"

\* A call whose arguments lack a required field has been answered with an error payload
\* and no executor ran.
C14_Witness ==
  /\ last.op = "toolSettled"
  /\ last.tool.parameters = "email"
  /\ last.tool.params = << <<"subject", "Hi">> >>
  /\ last.tool.invoked = "none" /\ last.tool.payload = "error"

\* ---- C15 (holds for a schema that declares properties)
\* The required fields of the schema that took no argument, or took an empty one.
UnfilledRequired ==
  LET schema == Schema(norm.schema)
      cands  == buildCandidateMap(norm.rawArgs)
      Taken(key) == /\ key \in Range(schema.properties)
                    /\ matchSchemaKey(cands, key).found
                    /\ ~isEmptyValue(alignValueWithSchema(matchSchemaKey(cands, key).value, key))
  IN  {key \in Range(schema.required) : ~Taken(key)}

\* C15 as stated: for every schema, the reconciliation throws exactly when a required
\* field is unfilled and then names the unfilled fields, each once.
C15_Original ==
  norm.done =>
    /\ norm.threw <=> UnfilledRequired # {}
    /\ Range(norm.missingRequired) = UnfilledRequired
    /\ Len(norm.missingRequired) = Cardinality(UnfilledRequired)

\* C15: for a schema with at least one property, the reconciliation throws exactly when
\* a required field was never matched or its matched value is empty, and the error
\* names exactly those fields, each once; under the email schema {subject: "Hi"} gives
\* recipient_email and body.
C15_MissingRequiredExact ==
  (norm.done /\ Schema(norm.schema).properties # <<>>) =>
    /\ norm.threw <=> UnfilledRequired # {}
    /\ Range(norm.missingRequired) = UnfilledRequired
    /\ Len(norm.missingRequired) = Cardinality(UnfilledRequired)
    /\ (norm.schema = "email" /\ norm.rawArgs = << <<"subject", "Hi">> >>)
         => (norm.threw /\ Range(norm.missingRequired) = {"recipient_email", "body"})

\* The scenario: the email schema and {subject: "Hi"} have been reconciled and two
\* fields are named.
C15_Witness ==
  /\ norm.done /\ norm.schema = "email"
  /\ norm.rawArgs = << <<"subject", "Hi">> >>
  /\ norm.threw /\ Len(norm.missingRequired) = 2

\* ---- C16 (does not hold of the code)
\* C16: the email schema and {to: "a@x.com", Subject: "Hi", message: "Hello"} reconcile
\* to the object with exactly the entries recipient_email: "a@x.com", subject: "Hi" and
\* body: "Hello".
C16_ScenarioOutput ==
  (/\ norm.done /\ norm.schema = "email"
   /\ norm.rawArgs = << <<"to", "a@x.com">>, <<"Subject", "Hi">>, <<"message", "Hello">> >>)
    => Range(norm.normalized) =
         {<<"recipient_email", "a@x.com">>, <<"subject", "Hi">>, <<"body", "Hello">>}

\* ---- C17 (does not hold of the code)
\* C17: whatever the interleaving of playAudioData, stopPlayback and ended events, at
\* most one source is sounding.
C17_OneBufferAtATime ==
  playing <= 1

\* ---- C18 (does not hold of the code)
\* C18: when stopPlayback() returns, the queue is empty and no source is sounding.
C18_StoppedAfterStopPlayback ==
  (last.op = "stopPlayback") => (audioQueue = 0 /\ ~isPlayingAudio /\ playing = 0)

\* ---- C19 (does not hold of the code)
\* C19: a step in which the agent state becomes interrupted leaves the playback queue
\* empty and nothing playing, when the handlers of useVoiceEmbed are registered.
C19_InterruptedStopsPlayback ==
  [][(agentState # "interrupted" /\ agentState' = "interrupted" /\ eventHandlers)
       => (audioQueue' = 0 /\ ~isPlayingAudio' /\ playing' = 0)]_vars

\* ---- C20 (does not hold of the code)
\* C20: an initialize() called while a performInitialization is waiting for the
\* microphone joins it and asks for no microphone of its own.
C20_SecondCallJoins ==
  (last.op = "initialize" /\ last.preInits > 0)
    => (last.joined /\ ~last.requested)

\* The AudioManager's device, capture and playback fields.
audioState ==
  <<audioContext, stream, microphone, onAudioDataCallback, workletNode, workletReady,
    connected, audioQueue, isPlayingAudio, currentSource, playing, stopping,
    isInitializing, isInitialized, isClosing, initializationPromise, inits, loads,
    staleLoads, registered>>

\* ---- C21 (does not hold of the code)
\* C21: a close() without force, called while a performInitialization is waiting for
\* its microphone, changes nothing of the AudioManager: device, capture sink, playback
\* state and the initialization in flight are as they were.
C21_UnforcedCloseDuringInitialization ==
  [][(last'.op = "close" /\ ~last'.force /\ inits > 0) => UNCHANGED audioState]_vars

\* ---- C28
\* C28: startCapture() gets as far as loading the worklet or feeding the microphone
\* into it only when the AudioManager is initialized (an initialize() succeeded and
\* nothing has torn it down since); called in any other state it throws the
\* not-initialized error and changes nothing.  Capture that begins once the worklet
\* module is loaded begins on an initialized AudioManager as well.
C28_StartCaptureNeedsInitialized ==
  [][/\ (last'.op = "startCapture" /\ ~isInitialized)
          => (last'.error = "NotInitialized" /\ UNCHANGED audioState)
     /\ (last'.op = "startCapture" /\ (last'.started \/ last'.requested))
          => isInitialized
     /\ (last'.op = "addModule" /\ last'.started) => isInitialized']_vars

\* startCapture() was refused while an initialization was still waiting for the
\* microphone (the AudioContext exists, the stream does not).
C28_Witness ==
  /\ last.op = "startCapture" /\ last.error = "NotInitialized"
  /\ audioContext /\ ~stream /\ inits > 0

\* The client's connection, bookkeeping and subscriptions.
clientState ==
  <<ws, sock, timers, reconnectAttempts, agentState, intentionalClose, hasBufferedAudio,
    bufferedSamples, hasReceivedAudio, sessionUpdateSent, pendingClear,
    activeResponseCount, cancelPending, eventHandlers>>

\* ---- C22
\* C22: a disconnect() that follows a disconnect(), and a close() that follows the same
\* close(), change nothing.  What every disconnect() leaves: no socket held (the one
\* it held is closing or closed), the turn, response and audio bookkeeping reset, no
\* subscriptions, agent state idle.  What every close() that is not refused leaves: no
\* stream, no microphone source, no AudioContext, nothing queued or playing, and the
\* flags such that initialize() starts afresh.
C22_RepeatedShutdownIsNoOp ==
  [][/\ (last'.op = "disconnect" /\ last'.repeat) => UNCHANGED clientState
     /\ (last'.op = "close" /\ last'.repeat) => UNCHANGED audioState
     /\ (last'.op = "disconnect")
          => /\ ws' = 0 /\ \A k \in Slots : sock'[k].st \notin {"connecting", "open"} \/ k # ws
             /\ intentionalClose' /\ ~sessionUpdateSent' /\ pendingClear'
             /\ ~hasReceivedAudio' /\ ~hasBufferedAudio' /\ bufferedSamples' = 0
             /\ activeResponseCount' = 0 /\ ~cancelPending'
             /\ ~eventHandlers' /\ agentState' = "idle"
     /\ (last'.op = "close" /\ (last'.force \/ ~isInitializing))
          => /\ ~stream' /\ ~microphone' /\ ~audioContext' /\ ~workletNode'
             /\ audioQueue' = 0 /\ ~isPlayingAudio' /\ ~currentSource' /\ playing' = 0
             /\ ~isInitialized' /\ ~isClosing' /\ ~initializationPromise']_vars

\* A second disconnect() came while the socket the first one closed was still closing.
C22_Witness ==
  /\ last.op = "disconnect" /\ last.repeat
  /\ \E k \in Slots : sock[k].st = "closing"

\* ---- C23
\* C23: an error message from upstream (with its error object) makes the client emit
\* one error event carrying a text, and nothing else: the socket, the timers, the agent
\* state, the response and audio bookkeeping and the AudioManager are as before.
C23_UpstreamErrorOnlyEmits ==
  [][(last'.op = "onmessage" /\ last'.frame \in {"error", "error.bare"})
       => /\ last'.emitted = <<"error">>
          /\ last'.error \in {"message", "json"}
          /\ UNCHANGED <<clientState, audioState>>]_vars

\* An error message arrived in the middle of a response that was being spoken.
C23_Witness ==
  /\ last.op = "onmessage" /\ last.frame = "error"
  /\ agentState = "speaking" /\ activeResponseCount > 0 /\ isPlayingAudio

\* ---- C24
\* C24: a frame that is not JSON, that is not a message object, or whose type the
\* client does not know is dropped, and so is an error message without its error
\* object: nothing is thrown out of ws.onmessage, nothing is emitted, and the socket,
\* the agent state, the bookkeeping and the AudioManager are as before.
C24_MalformedMessageDropped ==
  [][(last'.op = "onmessage"
        /\ last'.frame \in {"garbage", "null", "unknown", "error.none"})
       => /\ ~last'.threw
          /\ last'.emitted = <<>>
          /\ UNCHANGED <<clientState, audioState>>]_vars

\* A frame that could not be parsed was caught in the middle of a response.
C24_Witness ==
  /\ last.op = "onmessage" /\ last.frame = "garbage" /\ last.caught
  /\ agentState = "thinking" /\ activeResponseCount > 0
  /\ \E k \in Slots : sock[k].st = "open"

\* The agent states one step went through: a speech_started that interrupts sets
\* interrupted (in cancelResponse) and then listening; every other step sets the
\* state at most once.
statesOfStep ==
  IF /\ last'.op = "input_audio_buffer.speech_started"
     /\ Has(last'.emitted, "agent_state.interrupted")
    THEN <<agentState, "interrupted", agentState'>>
    ELSE <<agentState, agentState'>>

\* ---- C25 (does not hold of the code)
\* C25: every change of the agent state is idle -> listening, listening -> thinking,
\* thinking -> speaking, speaking -> idle, speaking or thinking -> interrupted, or
\* interrupted -> listening.
C25_AgentStateTransitions ==
  [][\A i \in 1..(Len(statesOfStep) - 1) :
       statesOfStep[i] # statesOfStep[i + 1]
         => <<statesOfStep[i], statesOfStep[i + 1]>> \in
              {<<"idle", "listening">>, <<"listening", "thinking">>,
               <<"thinking", "speaking">>, <<"speaking", "idle">>,
               <<"speaking", "interrupted">>, <<"thinking", "interrupted">>,
               <<"interrupted", "listening">>}]_vars

\* ---- C27 (as stated it does not hold: 32767 comes out as 32766)
\* C27 as stated: a 16-bit sample decoded as playback decodes it and encoded again as
\* capture encodes it comes out within 1 of what it was, and exactly as it was when it
\* is -32768 or 32767.
C27_Original ==
  (pcm.st = "encoded")
    => /\ pcm.y - pcm.x \in {-1, 0, 1}
       /\ pcm.x \in {-32768, 32767} => pcm.y = pcm.x

\* C27: the sample comes out within 1 of what it was: unchanged when it is negative
\* or zero (so -32768 is exact), one less when it is positive (so 32767 comes out as
\* 32766).
C27_RoundTripWithinOne ==
  (pcm.st = "encoded")
    => /\ pcm.y - pcm.x \in {-1, 0, 1}
       /\ pcm.x <= 0 => pcm.y = pcm.x
       /\ pcm.x > 0 => pcm.y = pcm.x - 1

\* The largest sample went through decoding and encoding.
C27_Witness ==
  /\ pcm.st = "encoded" /\ pcm.x = 32767 /\ pcm.y = 32766
  /\ pcm.float = [k |-> "num", neg |-> FALSE, m |-> <<32767>>, e |-> -15]

\* The output of a new processor handed the whole signal as one block.
wholeOutput == resample([worklet EXCEPT !.phase = Zero], worklet.signal).output

\* Two samples are the same within tolerance: numbers no more than 2^-20 apart.
Tolerance == FNum(FALSE, <<1>>, -20)
Same(a, b) ==
  /\ a.k = "num" /\ b.k = "num"
  /\ ~FLess(Tolerance, FSub(a, b)) /\ ~FLess(Tolerance, FSub(b, a))

\* ---- C26 (does not hold of the code)
\* C26: once the whole signal has been fed, in blocks of whatever lengths, the
\* outputs of the calls put together are the output of resampling the signal as one
\* block: as many samples, with the same values within tolerance.
C26_ChunkingInvariant ==
  (worklet.fed > 0 /\ worklet.fed = Len(worklet.signal))
    => With(wholeOutput, LAMBDA whole :
         /\ Len(worklet.output) = Len(whole)
         /\ \A i \in 1..Len(whole) : Same(worklet.output[i], whole[i]))

\* The arguments that could supply schemaKey at each stage of the matching, as
\* positions in the raw arguments: the key normalizes to the field's normalized name;
\* it normalizes to a synonym of the field's concept; its normalized form has token
\* similarity of 0.6 or more with the field.
exactRivals(rawArgs, schemaKey) ==
  {i \in 1..Len(rawArgs) :
     normalizeFieldName(Spelling[rawArgs[i][1]]) = normalizeFieldName(Spelling[schemaKey])}

synonymRivals(rawArgs, schemaKey) ==
  LET synonyms == globalConceptSynonyms(guessConceptForSchemaKey(schemaKey))
  IN  {i \in 1..Len(rawArgs) :
         \E k \in 1..Len(synonyms) :
           normalizeFieldName(Spelling[rawArgs[i][1]]) = normalizeFieldName(synonyms[k])}

similarRivals(rawArgs, schemaKey) ==
  {i \in 1..Len(rawArgs) :
     ScoreAtLeastThreshold(
       tokenSimilarity(Spelling[schemaKey], normalizeFieldName(Spelling[rawArgs[i][1]])))}

\* ---- C29
\* C29: for each schema field the value is taken from an argument that matches its
\* normalized name when there is one; else from one that matches a synonym of its
\* concept when there is one; else from one whose token similarity is 0.6 or more,
\* the first of those with the highest score; else the field gets nothing.
C29_MatchPriority ==
  (norm.done /\ norm.schema = "memo")
    => \A n \in 1..Len(norm.logs) :
         LET log     == norm.logs[n]
             exact   == exactRivals(norm.rawArgs, log.targetKey)
             synonym == synonymRivals(norm.rawArgs, log.targetKey)
             similar == similarRivals(norm.rawArgs, log.targetKey)
             Score(i) == tokenSimilarity(Spelling[log.targetKey],
                                         normalizeFieldName(Spelling[norm.rawArgs[i][1]]))
             from    == {i \in 1..Len(norm.rawArgs) : norm.rawArgs[i][1] = log.fromKey}
         IN  /\ log.targetKey = Schema(norm.schema).properties[n]
             /\ exact # {}
                  => log.reason = "Direct key match (normalized)" /\ from \subseteq exact
                       /\ from # {}
             /\ (exact = {} /\ synonym # {})
                  => log.reason = "Concept-based synonym match" /\ from \subseteq synonym
                       /\ from # {}
             /\ (exact = {} /\ synonym = {} /\ similar # {})
                  => /\ log.reason = "Fuzzy token similarity match"
                     /\ \E i \in similar :
                          /\ from = {i}
                          /\ \A j \in similar : ~ScoreGreater(Score(j), Score(i))
                          /\ \A j \in similar : j < i => ScoreGreater(Score(i), Score(j))
             /\ (exact = {} /\ synonym = {} /\ similar = {})
                  => log.reason = "No matching argument found"
             /\ \A e \in Range(norm.normalized) :
                  e[1] = log.targetKey
                    => \E i \in from :
                         e[2] = alignValueWithSchema(norm.rawArgs[i][2], log.targetKey)

\* Both fields had rivals: recipient_email its own name after the synonym "to", and
\* bodytext_bodytext two spellings of its token, the later one in lower case.
C29_Witness ==
  /\ norm.done /\ norm.schema = "memo"
  /\ norm.rawArgs =
       << <<"to", "a@x.com">>, <<"recipient_email", "b@x.com">>, <<"BodyText", "hi">> >>
  /\ Range(norm.normalized) =
       {<<"to", "a@x.com">>, <<"BodyText", "hi">>,
        <<"recipient_email", "b@x.com">>, <<"bodytext_bodytext", "hi">>}

\* ---- C30 (does not hold of the code)
\* C30: under a schema that declares properties, every raw key that is spelled as a
\* declared field and has a non-empty value is a key of the result, and no key of the
\* result occurs twice (a key has the one value the schema matching gave it).
C30_SchemaKeysKept ==
  (norm.done /\ Schema(norm.schema).properties # <<>>)
    => /\ \A i \in 1..Len(norm.rawArgs) :
            (/\ norm.rawArgs[i][1] \in Range(Schema(norm.schema).properties)
             /\ ~isEmptyValue(norm.rawArgs[i][2]))
              => norm.rawArgs[i][1] \in Range(KeysOf(norm.normalized))
       /\ \A m, n \in 1..Len(norm.normalized) :
            norm.normalized[m][1] = norm.normalized[n][1] => m = n

\* ---- C39 (does not hold of the code)
\* C39: no call of process() computes, for a block of length L, a source position
\* whose index is L or more, or less than 0: every input[index] read lies in the block.
C39_IndexInBlock ==
  ~worklet.overrun

\* ---- C34
\* C34: the k-th reconnection attempt since the last successful open (k = 1..5) is the
\* only step that raises the attempt counter, raises it from k - 1 to k and schedules
\* connect() after 1000, 2000, 4000, 8000, 16000 ms for k = 1, 2, 3, 4, 5; the counter
\* stays within 0..5; the step in which a connecting socket opens leaves it at 0, and
\* no other step changes it.
C34_ReconnectBackoff ==
  [][/\ reconnectAttempts' \in 0..5
     /\ last'.scheduled =>
           /\ last'.op = "onclose"
           /\ reconnectAttempts' = reconnectAttempts + 1
           /\ last'.delay = <<1000, 2000, 4000, 8000, 16000>>[reconnectAttempts']
     /\ (\E k \in Slots : sock[k].st = "connecting" /\ sock'[k].st = "open")
           => reconnectAttempts' = 0
     /\ reconnectAttempts' # reconnectAttempts
           => \/ last'.scheduled
              \/ /\ reconnectAttempts' = 0
                 /\ \E k \in Slots : sock[k].st = "connecting" /\ sock'[k].st = "open"]_vars

\* The fifth attempt in a row has just been scheduled, sixteen seconds ahead.
C34_Witness ==
  /\ last.op = "onclose" /\ last.scheduled
  /\ last.preAttempts = 4 /\ reconnectAttempts = 5 /\ last.delay = 16000

\* ---- C38
\* C38: in every reachable state activeResponseCount is at least 0 and cancelPending is
\* true only while activeResponseCount is above 0, whatever the order of
\* response.created, response.done, response.canceled, cancelResponse(), connect(),
\* reconnect() and disconnect().
C38_CounterAndPendingFlag ==
  /\ activeResponseCount >= 0
  /\ cancelPending => activeResponseCount > 0

\* A cancel is pending while more than one response counts as active.
C38_Witness ==
  cancelPending /\ activeResponseCount > 1

\* ---- C37 (does not hold of the code)
\* C37: when the tool of a call settles after the connection the function call arrived
\* on was closed or replaced, the step transmits nothing: no function_call_output item
\* and no response.create go out on another connection.
C37_OutputOnlyOnCallConnection ==
  (last.op = "toolSettled" /\ calls[last.settled].stale) => last.sent = <<>>

\* ---- C36 (does not hold of the code)
\* C36: every promise playAudioData() returned is resolved in the end: once
\* playAudioData() is called no more, there comes a moment from which no promise is
\* unresolved, also when stopPlayback() or close() emptied the queue in between.
C36_EverySignalResolves ==
  <>[][last'.op # "playAudioData"]_vars => <>[](unresolved = 0)

\* ---- C31 (holds for the invocations that carry arguments)
\* What a nested invocation of the last call was reconciled against, if anything: the
\* schema of the tool it names.
childSchema(i) == getSchemaForChildTool(last.tool.nested.list[i].slug)

\* The required fields of the tool invocation i names that its arguments leave
\* unfilled; an invocation without arguments leaves all of them unfilled.
childMissing(i) ==
  LET call == last.tool.nested.list[i]
  IN  IF childSchema(i) = "none" THEN <<>>
      ELSE IF call.payload = "none"
        THEN Schema(childSchema(i)).required
        ELSE performNormalization(Schema(childSchema(i)), call.args).missingRequired

fanOut ==
  /\ last.op = "executeTool"
  /\ getChildToolArrayKey(last.tool.nested) # "none"
  /\ ~normalizeMCPArguments(Schema(last.tool.parameters), last.tool.params).threw

\* C31 as stated: whenever a nested invocation names a tool with a schema and leaves a
\* required field of that schema unfilled, the parent is not dispatched.
C31_Original ==
  fanOut =>
    \A i \in 1..Len(last.tool.nested.list) :
      (childSchema(i) # "none" /\ childMissing(i) # <<>>) => last.tool.invoked = "none"

\* C31: of a fan-out call whose own arguments pass, every nested invocation that names
\* a tool with a schema and carries arguments has them reconciled under that schema,
\* whatever the parent's schema is: if they leave a required field of it unfilled the
\* parent is not dispatched and an error payload is returned; if the parent is
\* dispatched, the arguments it carries are the reconciled ones, with every required
\* field of the child's schema filled; invocations without arguments, without a slug
\* or naming a tool without a schema are handed on unchanged.
C31_NestedUnderOwnSchema ==
  fanOut =>
    LET invs == last.tool.nested.list
        Own(i) == invs[i].slug # "none" /\ invs[i].payload # "none"
                    /\ childSchema(i) # "none"
    IN  /\ (\E i \in 1..Len(invs) : Own(i) /\ childMissing(i) # <<>>)
             => (last.tool.invoked = "none" /\ last.tool.payload = "error"
                 /\ ~last.tool.threw)
        /\ (\A i \in 1..Len(invs) : Own(i) => childMissing(i) = <<>>)
             => /\ last.tool.invoked # "none"
                /\ Len(last.tool.children) = Len(invs)
                /\ \A i \in 1..Len(invs) :
                     IF Own(i)
                       THEN /\ Range(Schema(childSchema(i)).required)
                                 \subseteq Range(KeysOf(last.tool.children[i].args))
                            /\ \A j \in 1..Len(last.tool.children[i].args) :
                                 ~isEmptyValue(last.tool.children[i].args[j][2])
                            /\ last.tool.children[i].slug = invs[i].slug
                       ELSE last.tool.children[i] = invs[i]

\* A note-taking invocation whose arguments fill the note schema and not the parent's
\* email schema went out with its parent, beside a mail invocation that does fill it.
C31_Witness ==
  /\ fanOut /\ last.tool.invoked = "execute" /\ last.tool.parameters = "email"
  /\ Len(last.tool.nested.list) = 2
  /\ last.tool.nested.list[1] =
       [slug |-> "add_note", payload |-> "args", args |-> << <<"subject", "Hi">> >>]
  /\ last.tool.nested.list[2].slug = "send_email"
  /\ last.tool.nested.list[2].args = << <<"to", "a@x.com">>, <<"message", "Hello">> >>
  /\ KeysOf(last.tool.children[2].args) = <<"to", "message", "recipient_email", "body">>


\* C32: at any time there is at most one accumulating transcript buffer per speaker.
buffered(role) == {id \in DOMAIN transcripts[role] : transcripts[role][id].has}
C32_OneBufferPerSpeaker == \A role \in Roles : Cardinality(buffered(role)) <= 1

\* C33: a transcript.done whose final text (the event's transcript, or else the item's
\* buffer) is empty or whitespace-only appends no message and removes the item's
\* buffer; one with any other text appends exactly one message with that text and
\* the speaker's role.
finalText ==
  LET event == last'.event
      buffer == transcripts[event.role][eventItemId(transcripts, event)]
  IN  IF event.text # <<>> THEN event.text ELSE buffer.text
blank(text) == \A i \in 1..Len(text) : text[i] = " "
C33_DoneAppendsOnlyText ==
  [][last'.op = "transcript.done" =>
       LET event == last'.event
           itemId == eventItemId(transcripts, event)
       IN  /\ ~transcripts'[event.role][itemId].has
           /\ IF blank(finalText)
                 THEN messages' = messages
                 ELSE /\ Len(messages') = Len(messages) + 1
                      /\ SubSeq(messages', 1, Len(messages)) = messages
                      /\ messages'[Len(messages')] =
                           [role |-> event.role, content |-> finalText]]_vars
C33_Witness ==
  /\ last.op = "transcript.done"
  /\ last.event.text = <<" ">>
  /\ messages = <<[role |-> "assistant", content |-> <<"a">>]>>


\* C35: when the user turned recording off or stopped the session while the start-up
\* was in flight, then once the start-up has settled no capture is running, no sink
\* is registered for frames, and the input device is released.
C35_StoppedStartupReleases ==
  (hook.stopped /\ hook.runs = <<>> /\ hook.ended \in {"done", "failed"}) =>
    /\ ~connected /\ ~workletNode
    /\ ~onAudioDataCallback
    /\ ~stream /\ ~microphone

====
